---- MODULE Spec2Model ----
(***************************************************************************)
(* Model of the conversational shopping agent: ShoppingAgent.process_message *)
(* (one turn, split at its Completion Client calls), ShoppingAgent.         *)
(* execute_action, and the cart / product / payment collaborators they call. *)
(***************************************************************************)
EXTENDS Integers, Sequences, FiniteSets, TLC

\* ---------------------------------------------------------------- bounds
\* total number of process_message calls started in a run
MaxTurns == 2
\* longest tool-call list an assistant message carries
MaxBatch == 3
\* total number of execute_action calls in a run
MaxActions == 2
\* total number of WebSocket connections accepted in a run
MaxConnections == 2
\* largest absolute quantity of a cart line in the direct cart operations
MaxQuantity == 3

\* ------------------------------------------------------ opaque identifiers
\* session identifiers supplied by callers
Sessions == {"s1", "s2"}
\* Python None, a missing key and the empty string are all falsy
None == ""

\* ---------------------------------------------------------------- catalog
\* p1001 (line 21): name "Budget Gaming Laptop", description "Affordable gaming laptop with great performance"

MOCK_p1001 ==
    [id |-> "p1001",
     name |-> <<"B","u","d","g","e","t"," ","G","a","m","i","n","g"," ","L","a","p","t","o","p">>,
     description |-> <<"A","f","f","o","r","d","a","b","l","e"," ","g","a","m","i","n","g"," ","l","a","p","t","o","p"," ","w","i","t","h"," ","g","r","e","a","t"," ","p","e","r","f","o","r","m","a","n","c","e">>,
     category |-> <<"L","a","p","t","o","p","s">>,
     brand |-> <<"T","e","c","h","X">>,
     price |-> 79999]

\* p1002 (line 42): name "Ultra-thin Professional Laptop", description "Sleek and powerful laptop for professionals"

MOCK_p1002 ==
    [id |-> "p1002",
     name |-> <<"U","l","t","r","a","-","t","h","i","n"," ","P","r","o","f","e","s","s","i","o","n","a","l"," ","L","a","p","t","o","p">>,
     description |-> <<"S","l","e","e","k"," ","a","n","d"," ","p","o","w","e","r","f","u","l"," ","l","a","p","t","o","p"," ","f","o","r"," ","p","r","o","f","e","s","s","i","o","n","a","l","s">>,
     category |-> <<"L","a","p","t","o","p","s">>,
     brand |-> <<"M","a","c","r","o","s","o","f","t">>,
     price |-> 129999]

\* p1003 (line 63): name "Smart 4K Television", description "4K UHD Smart TV with voice control"

MOCK_p1003 ==
    [id |-> "p1003",
     name |-> <<"S","m","a","r","t"," ","4","K"," ","T","e","l","e","v","i","s","i","o","n">>,
     description |-> <<"4","K"," ","U","H","D"," ","S","m","a","r","t"," ","T","V"," ","w","i","t","h"," ","v","o","i","c","e"," ","c","o","n","t","r","o","l">>,
     category |-> <<"T","e","l","e","v","i","s","i","o","n","s">>,
     brand |-> <<"V","i","s","i","o","n","P","l","u","s">>,
     price |-> 54999]

\* p1004 (line 84): name "Wireless Noise Cancelling Headphones", description "Premium wireless headphones with active noise cancellation"

MOCK_p1004 ==
    [id |-> "p1004",
     name |-> <<"W","i","r","e","l","e","s","s"," ","N","o","i","s","e"," ","C","a","n","c","e","l","l","i","n","g"," ","H","e","a","d","p","h","o","n","e","s">>,
     description |-> <<"P","r","e","m","i","u","m"," ","w","i","r","e","l","e","s","s"," ","h","e","a","d","p","h","o","n","e","s"," ","w","i","t","h"," ","a","c","t","i","v","e"," ","n","o","i","s","e"," ","c","a","n","c","e","l","l","a","t","i","o","n">>,
     category |-> <<"A","u","d","i","o">>,
     brand |-> <<"S","o","u","n","d","M","a","s","t","e","r">>,
     price |-> 24999]

\* p1005 (line 105): name "High-Performance Smartphone", description "Flagship smartphone with advanced camera system"

MOCK_p1005 ==
    [id |-> "p1005",
     name |-> <<"H","i","g","h","-","P","e","r","f","o","r","m","a","n","c","e"," ","S","m","a","r","t","p","h","o","n","e">>,
     description |-> <<"F","l","a","g","s","h","i","p"," ","s","m","a","r","t","p","h","o","n","e"," ","w","i","t","h"," ","a","d","v","a","n","c","e","d"," ","c","a","m","e","r","a"," ","s","y","s","t","e","m">>,
     category |-> <<"S","m","a","r","t","p","h","o","n","e","s">>,
     brand |-> <<"P","e","a","r">>,
     price |-> 89999]

\* MOCK_PRODUCTS, in list order (ProductService.products keeps insertion order)
MOCK_PRODUCTS == <<MOCK_p1001, MOCK_p1002, MOCK_p1003, MOCK_p1004, MOCK_p1005>>

\* ProductService.__init__: the ids that are keys of self.products
ProductIds == {MOCK_PRODUCTS[i].id : i \in 1..Len(MOCK_PRODUCTS)}

ProductById(pid) == CHOOSE p \in {MOCK_PRODUCTS[i] : i \in 1..Len(MOCK_PRODUCTS)} : p.id = pid

\* str.lower() on a string held as a tuple of characters
LowerChar(c) ==
    CASE c = "A" -> "a" [] c = "B" -> "b" [] c = "C" -> "c" [] c = "D" -> "d"
      [] c = "E" -> "e" [] c = "F" -> "f" [] c = "G" -> "g" [] c = "H" -> "h"
      [] c = "I" -> "i" [] c = "J" -> "j" [] c = "K" -> "k" [] c = "L" -> "l"
      [] c = "M" -> "m" [] c = "N" -> "n" [] c = "O" -> "o" [] c = "P" -> "p"
      [] c = "Q" -> "q" [] c = "R" -> "r" [] c = "S" -> "s" [] c = "T" -> "t"
      [] c = "U" -> "u" [] c = "V" -> "v" [] c = "W" -> "w" [] c = "X" -> "x"
      [] c = "Y" -> "y" [] c = "Z" -> "z" [] OTHER -> c

Lower(str) == [i \in 1..Len(str) |-> LowerChar(str[i])]

\* Python's `needle in haystack` on strings
StrIn(needle, haystack) ==
    \E k \in 0..(Len(haystack) - Len(needle)) :
        \A i \in 1..Len(needle) : haystack[k + i] = needle[i]

\* the subsequence of seq at the indices in keep, order kept
RECURSIVE SelectIdx(_, _, _)
SelectIdx(seq, keep, i) ==
    IF i > Len(seq) THEN <<>>
    ELSE (IF i \in keep THEN <<seq[i]>> ELSE <<>>) \o SelectIdx(seq, keep, i + 1)

\* seq[:n]
Take(seq, n) == IF n <= 0 THEN <<>> ELSE SubSeq(seq, 1, IF n < Len(seq) THEN n ELSE Len(seq))

\* ProductService.search_products with filters = None, page = 1, page_size = 10
ProductService_search_products(query) ==
    LET q == Lower(query)
        hit == {i \in 1..Len(MOCK_PRODUCTS) :
                   \/ StrIn(q, Lower(MOCK_PRODUCTS[i].name))
                   \/ StrIn(q, Lower(MOCK_PRODUCTS[i].description))
                   \/ StrIn(q, Lower(MOCK_PRODUCTS[i].category))
                   \/ StrIn(q, Lower(MOCK_PRODUCTS[i].brand))}
        results == SelectIdx(MOCK_PRODUCTS, hit, 1)
    IN  Take(results, 10)

\* ProductService.get_product_details: the product, or None when the id is unknown
ProductService_has_product(pid) == pid \in ProductIds

\* ProductService.get_related_products: same category, the product itself excluded
ProductService_get_related_products(pid, limit) ==
    IF pid \notin ProductIds THEN <<>>
    ELSE LET category == ProductById(pid).category
             rel == {i \in 1..Len(MOCK_PRODUCTS) :
                        /\ MOCK_PRODUCTS[i].id # pid
                        /\ MOCK_PRODUCTS[i].category = category}
             \* the loop appends before it tests len(results) >= limit
         IN  Take(SelectIdx(MOCK_PRODUCTS, rel, 1), IF limit < 1 THEN 1 ELSE limit)

\* ------------------------------------------------- dict-shaped values
\* A Python dict is a record of its values plus the set of keys it has; a key
\* outside `keys` is absent and its field holds the filler of its type.

\* dict.get(key, default)
Get(d, key, default) == IF key \in d.keys THEN d[key] ELSE default

\* product.dict() / {"error": ...}: id = None means the dict has no "id" key
NoProduct == [id |-> None, error |-> None]
ProductDict(pid) == [id |-> pid, error |-> None]
ProductError(msg) == [id |-> None, error |-> msg]

\* cart.dict() carries the CartResponse's datetime fields created_at and
\* updated_at as datetime objects; an {"error": ...} dict does not
NoCartDict == [session_id |-> None, items |-> <<>>, error |-> None, has_datetime |-> FALSE]
CartDict(cart, s) == [session_id |-> s, items |-> cart.items, error |-> None, has_datetime |-> TRUE]
CartError(msg) == [session_id |-> None, items |-> <<>>, error |-> msg, has_datetime |-> FALSE]

\* ------------------------------------------------------- CartService
\* CartService.__init__: self.carts = {}
NoCart == [exists |-> FALSE, items |-> <<>>]
EmptyCart == [exists |-> TRUE, items |-> <<>>]

\* CartService.get_cart: creates and stores an empty cart when none exists
CartService_get_cart(cs, s) ==
    IF cs[s].exists THEN cs ELSE [cs EXCEPT ![s] = EmptyCart]

\* `item.quantity = quantity` in place of `item.quantity += quantity`
RECURSIVE AddLine_Overwrites(_, _, _, _)
AddLine_Overwrites(items, i, pid, q) ==
    IF i > Len(items) THEN Append(items, [product_id |-> pid, quantity |-> q])
    ELSE IF items[i].product_id = pid
         THEN [items EXCEPT ![i].quantity = q]
         ELSE AddLine_Overwrites(items, i + 1, pid, q)

\* a new line whether or not the product has one
AddLine_Appends(items, i, pid, q) ==
    Append(items, [product_id |-> pid, quantity |-> q])

\* the for/else of CartService.add_to_cart over cart.items
RECURSIVE AddLine(_, _, _, _)
AddLine(items, i, pid, q) ==
    IF i > Len(items) THEN Append(items, [product_id |-> pid, quantity |-> q])
    ELSE IF items[i].product_id = pid
         THEN [items EXCEPT ![i].quantity = items[i].quantity + q]
         ELSE AddLine(items, i + 1, pid, q)

\* the line is added without looking the product up
CartService_add_to_cart_Unchecked(cs, s, pid, q) ==
    LET c1 == CartService_get_cart(cs, s)
    IN  [raised |-> ~ProductService_has_product(pid),
         carts |-> [c1 EXCEPT ![s].items = AddLine(c1[s].items, 1, pid, q)]]

\* CartService.add_to_cart: [raised, carts]; the cart is fetched (and created)
\* before the product is looked up
CartService_add_to_cart(cs, s, pid, q) ==
    LET c1 == CartService_get_cart(cs, s)
    IN  IF ~ProductService_has_product(pid)
        THEN [raised |-> TRUE, carts |-> c1]
        ELSE [raised |-> FALSE,
              carts |-> [c1 EXCEPT ![s].items = AddLine(c1[s].items, 1, pid, q)]]

\* CartService.remove_from_cart: the lines of other products are kept
CartService_remove_from_cart(cs, s, pid) ==
    LET c1 == CartService_get_cart(cs, s)
    IN  [c1 EXCEPT ![s].items = SelectSeq(@, LAMBDA item : item.product_id # pid)]

\* CartService.update_quantity: [raised, carts]; the first line of the product
\* gets the quantity, or is removed when quantity <= 0; a product without a
\* line is added when quantity > 0
CartService_update_quantity(cs, s, pid, q) ==
    LET c1 == CartService_get_cart(cs, s)
        found == {i \in 1..Len(c1[s].items) : c1[s].items[i].product_id = pid}
        first == CHOOSE i \in found : \A j \in found : i <= j
    IN  IF found # {}
        THEN IF q <= 0
             THEN [raised |-> FALSE, carts |-> CartService_remove_from_cart(c1, s, pid)]
             ELSE [raised |-> FALSE, carts |-> [c1 EXCEPT ![s].items[first].quantity = q]]
        ELSE IF q > 0 THEN CartService_add_to_cart(c1, s, pid, q)
             ELSE [raised |-> FALSE, carts |-> c1]

\* CartService.clear_cart: a new empty cart for the session
CartService_clear_cart(cs, s) == [cs EXCEPT ![s] = EmptyCart]

\* ---------------------------------------------------- PaymentService
\* PaymentService.create_payment_session: [raised, payments]; stripe_ok is the
\* outcome of stripe.checkout.Session.create
PaymentService_create_payment_session(ps, cart, s, email, success_url, cancel_url, stripe_ok) ==
    IF ~stripe_ok
    THEN [raised |-> TRUE, payments |-> ps]
    ELSE [raised |-> FALSE,
          payments |-> Append(ps, [session_id |-> s, items |-> cart.items,
                                   customer_email |-> email])]

\* ---------------------------------- module-level tool functions
\* the query strings the model's tool calls carry
LAPTOPS == <<"l", "a", "p", "t", "o", "p", "s">>
Queries == {LAPTOPS}

\* ProductService.search_products tabulated over Queries (the catalog is fixed)
SearchIndex == [q \in Queries |-> ProductService_search_products(q)]

\* a filters dict whose "min_price" is a string
BAD_FILTERS == "<min_price: str>"

\* ProductService.search_products lines 168-173: the price of a product that
\* matches the query is compared with filters["min_price"]; TypeError when
\* that is no number
ProductService_search_raises(query, filters) ==
    filters = BAD_FILTERS /\ SearchIndex[query] # <<>>

\* search_products(product_service, query): {"count", "products"}
search_products(query) ==
    LET found == SearchIndex[query]
    IN  [i \in 1..Len(found) |-> ProductDict(found[i].id)]

\* a product that is not found reported as an empty dict
get_product_details_NoError(pid) ==
    IF ProductService_has_product(pid) THEN ProductDict(pid)
    ELSE NoProduct

\* get_product_details(product_service, product_id)
get_product_details(pid) ==
    IF ProductService_has_product(pid) THEN ProductDict(pid)
    ELSE ProductError("Product not found")

\* get_related_products(product_service, product_id, limit = 3)
get_related_products(pid, limit) ==
    LET found == ProductService_get_related_products(pid, limit)
    IN  [i \in 1..Len(found) |-> ProductDict(found[i].id)]

\* add_to_cart(cart_service, session_id, product_id, quantity): [carts, cart]
add_to_cart(cs, s, pid, q) ==
    LET r == CartService_add_to_cart(cs, s, pid, q)
    IN  [carts |-> r.carts,
         cart |-> IF r.raised THEN CartError("Product not found")
                  ELSE CartDict(r.carts[s], s)]

\* one cart for everybody: the session id is not used as the key
get_cart_Shared(cs, s) ==
    LET c1 == CartService_get_cart(cs, "s1")
    IN  [carts |-> c1, cart |-> CartDict(c1["s1"], "s1")]

\* get_cart(cart_service, session_id): [carts, cart]
get_cart(cs, s) ==
    LET c1 == CartService_get_cart(cs, s)
    IN  [carts |-> c1, cart |-> CartDict(c1[s], s)]

\* the payment session created from a new, empty cart and not from the cart
\* the cart service holds
create_checkout_NewCart(ps, cs, s, email, success_url, cancel_url, stripe_ok) ==
    LET c1 == CartService_get_cart(cs, s)
        r == PaymentService_create_payment_session(ps, EmptyCart, s, email,
                                                   success_url, cancel_url, stripe_ok)
    IN  [carts |-> c1, payments |-> r.payments,
         error |-> IF r.raised THEN "Payment processing error" ELSE None]

\* create_checkout(payment_service, cart_service, session_id, email,
\* success_url, cancel_url): [carts, payments, error]
create_checkout(ps, cs, s, email, success_url, cancel_url, stripe_ok) ==
    LET c1 == CartService_get_cart(cs, s)
        r == PaymentService_create_payment_session(ps, c1[s], s, email,
                                                   success_url, cancel_url, stripe_ok)
    IN  [carts |-> c1, payments |-> r.payments,
         error |-> IF r.raised THEN "Payment processing error" ELSE None]

\* ------------------------------------------------------------ messages
\* tool result dicts ({"count", "products"}, a product dict, {"error"},
\* {"status", "product"}, {"status", "cart"}, a cart dict)
EmptyResult ==
    [keys |-> {}, status |-> None, error |-> None, product |-> NoProduct,
     products |-> <<>>, cart |-> NoCartDict]

ProductsResult(products) ==
    [EmptyResult EXCEPT !.keys = {"count", "products"}, !.products = products]

\* get_product_details returns the product dict itself, or {"error": ...}
ProductResult(product) ==
    [EmptyResult EXCEPT !.keys = IF product.id # None THEN {"id"} ELSE {"error"},
                        !.product = product, !.error = product.error]

CartResult(cart) ==
    [EmptyResult EXCEPT !.keys = IF cart.error # None THEN {"error"} ELSE {"session_id", "items"},
                        !.cart = cart, !.error = cart.error]

\* an empty dict in place of {"error": ...}
ErrorResult_NoError(msg) == EmptyResult

ErrorResult(msg) == [EmptyResult EXCEPT !.keys = {"error"}, !.error = msg]

\* search_products lines 52-54: {"error": str(e), "products": []}
SearchError(msg) == [EmptyResult EXCEPT !.keys = {"error", "products"}, !.error = msg]

\* json.dumps(result): a datetime inside the dict raises TypeError
JsonDumps(result) == [raised |-> result.cart.has_datetime, text |-> result]

\* the messages of a transcript, one record shape for every role
SYSTEM_PROMPT == "You are an AI shopping assistant"
NUDGE == "The user has uploaded an image. Please use the search_products tool"
DEFAULT_IMAGE_TEXT == "Analyze this image and find similar products in the catalog."
\* `assistant_message.content` without the `or "..."`
FALLBACK_TEXT_None == None

FALLBACK_TEXT == "I'll help you find what you're looking for."

Msg(role, content) ==
    [role |-> role, content |-> content, image |-> None, tool_calls |-> <<>>,
     tool_call_id |-> 0, name |-> None, payload |-> EmptyResult]

NoMsg == Msg(None, None)
SystemMsg(content) == Msg("system", content)
UserMsg(text, image) == [Msg("user", text) EXCEPT !.image = image]
AssistantMsg(content, tool_calls) == [Msg("assistant", content) EXCEPT !.tool_calls = tool_calls]
\* the tool message without the id of its call
ToolMsg_NoId(id, name, text) ==
    [Msg("tool", None) EXCEPT !.name = name, !.payload = text]

ToolMsg(id, name, text) ==
    [Msg("tool", None) EXCEPT !.tool_call_id = id, !.name = name, !.payload = text]

\* ------------------------------------------------------------ tool calls
\* tool_call.function.arguments: parse_ok is whether json.loads yields a dict
NoArgs ==
    [parse_ok |-> TRUE, keys |-> {}, product_id |-> None, quantity |-> 0,
     query |-> <<>>, filters |-> None, limit |-> 0, email |-> None,
     success_url |-> None, cancel_url |-> None]

\* action_data dicts; keys = {} stands for None
NoActionData ==
    [keys |-> {}, type |-> None, product |-> NoProduct, quantity |-> 0,
     cart |-> NoCartDict, email |-> None, success_url |-> None,
     cancel_url |-> None, session_id |-> None]

\* The tool loop works on acc: the locals of process_message it reads and
\* writes (suggested_products, requires_action, action_data), the transcript,
\* the cart store, and the log of the collaborator calls of the turn.
Called(acc, what) == [acc EXCEPT !.calls = Append(acc.calls, what)]

\* the products of the result not taken over for the carousel
WithProducts_Ignored(acc, result) == acc

\* lines 481-485, 491-495: search_products / get_related_products results
WithProducts(acc, result) ==
    IF result.products # <<>>
    THEN [acc EXCEPT !.suggested_products = result.products]
    ELSE acc

\* add_to_cart dispatched like the read-only tools: executed on the spot
Gate_add_to_cart_Executes(acc, arguments, session_id) ==
    LET product_id == Get(arguments, "product_id", None)
        quantity == Get(arguments, "quantity", 1)
        r == add_to_cart(acc.carts, session_id, product_id, quantity)
        a1 == Called(acc, "cart_service.add_to_cart")
    IN  [acc |-> [a1 EXCEPT !.carts = r.carts],
         result |-> [EmptyResult EXCEPT !.keys = {"status", "product"},
                                        !.status = "added",
                                        !.product = get_product_details(product_id)]]

\* `arguments.get("quantity")` without the default of 1
Gate_add_to_cart_NoDefault(acc, arguments, session_id) ==
    LET product_id == Get(arguments, "product_id", None)
        quantity == Get(arguments, "quantity", 0)
        product == get_product_details(product_id)
        a1 == Called(acc, "product_service.get_product_details")
    IN  [acc |-> [a1 EXCEPT !.requires_action = TRUE,
                            !.action_data =
                                [NoActionData EXCEPT
                                    !.keys = {"type", "product", "quantity", "session_id"},
                                    !.type = "add_to_cart",
                                    !.product = product,
                                    !.quantity = quantity,
                                    !.session_id = session_id]],
         result |-> [EmptyResult EXCEPT !.keys = {"status", "product"},
                                        !.status = "waiting_for_confirmation",
                                        !.product = product]]

\* action_data set without raising the requires_action flag
Gate_add_to_cart_NoFlag(acc, arguments, session_id) ==
    LET product_id == Get(arguments, "product_id", None)
        quantity == Get(arguments, "quantity", 1)
        product == get_product_details(product_id)
        a1 == Called(acc, "product_service.get_product_details")
    IN  [acc |-> [a1 EXCEPT !.action_data =
                                [NoActionData EXCEPT
                                    !.keys = {"type", "product", "quantity", "session_id"},
                                    !.type = "add_to_cart",
                                    !.product = product,
                                    !.quantity = quantity,
                                    !.session_id = session_id]],
         result |-> [EmptyResult EXCEPT !.keys = {"status", "product"},
                                        !.status = "waiting_for_confirmation",
                                        !.product = product]]

\* the pending action names the product id as the model gave it
Gate_add_to_cart_Unresolved(acc, arguments, session_id) ==
    LET product_id == Get(arguments, "product_id", None)
        quantity == Get(arguments, "quantity", 1)
        product == ProductDict(product_id)
        a1 == Called(acc, "product_service.get_product_details")
    IN  [acc |-> [a1 EXCEPT !.requires_action = TRUE,
                            !.action_data =
                                [NoActionData EXCEPT
                                    !.keys = {"type", "product", "quantity", "session_id"},
                                    !.type = "add_to_cart",
                                    !.product = product,
                                    !.quantity = quantity,
                                    !.session_id = session_id]],
         result |-> [EmptyResult EXCEPT !.keys = {"status", "product"},
                                        !.status = "waiting_for_confirmation",
                                        !.product = product]]

\* lines 496-514: add_to_cart is gated; [acc, result]
Gate_add_to_cart(acc, arguments, session_id) ==
    LET product_id == Get(arguments, "product_id", None)
        quantity == Get(arguments, "quantity", 1)
        product == get_product_details(product_id)
        a1 == Called(acc, "product_service.get_product_details")
    IN  [acc |-> [a1 EXCEPT !.requires_action = TRUE,
                            !.action_data =
                                [NoActionData EXCEPT
                                    !.keys = {"type", "product", "quantity", "session_id"},
                                    !.type = "add_to_cart",
                                    !.product = product,
                                    !.quantity = quantity,
                                    !.session_id = session_id]],
         result |-> [EmptyResult EXCEPT !.keys = {"status", "product"},
                                        !.status = "waiting_for_confirmation",
                                        !.product = product]]

\* lines 517-538: create_checkout is gated; [acc, result]
Gate_create_checkout(acc, arguments, session_id) ==
    LET r == get_cart(acc.carts, session_id)
        a1 == [Called(acc, "cart_service.get_cart") EXCEPT !.carts = r.carts]
    IN  [acc |-> [a1 EXCEPT !.requires_action = TRUE,
                            !.action_data =
                                [NoActionData EXCEPT
                                    !.keys = {"type", "cart", "email", "success_url",
                                              "cancel_url", "session_id"},
                                    !.type = "checkout",
                                    !.cart = r.cart,
                                    !.email = Get(arguments, "email", None),
                                    !.success_url = Get(arguments, "success_url", None),
                                    !.cancel_url = Get(arguments, "cancel_url", None),
                                    !.session_id = session_id]],
         result |-> [EmptyResult EXCEPT !.keys = {"status", "cart"},
                                        !.status = "waiting_for_confirmation",
                                        !.cart = r.cart]]

\* lines 480-540: the if/elif chain on function_name; [raised, acc, result].
\* `**arguments` raises TypeError when a required parameter is missing or a
\* key is no parameter of the function.
Dispatch(acc, function_name, arguments, session_id) ==
    LET Raise == [raised |-> TRUE, acc |-> acc, result |-> EmptyResult]
        Ok(a, result) == [raised |-> FALSE, acc |-> a, result |-> result]
    IN
    CASE function_name = "search_products" ->
         IF ~("query" \in arguments.keys /\ arguments.keys \subseteq {"query", "filters"})
         THEN Raise
         ELSE LET result ==
                      IF ProductService_search_raises(arguments.query,
                                                      Get(arguments, "filters", None))
                      THEN SearchError("'<' not supported between 'float' and 'str'")
                      ELSE ProductsResult(search_products(arguments.query))
              IN  Ok(WithProducts(Called(acc, "product_service.search_products"), result),
                     result)
      [] function_name = "get_product_details" ->
         IF arguments.keys # {"product_id"}
         THEN Raise
         ELSE LET result == ProductResult(get_product_details(arguments.product_id))
                  a1 == Called(acc, "product_service.get_product_details")
              IN  Ok(IF "id" \in result.keys
                     THEN [a1 EXCEPT !.suggested_products = <<result.product>>]
                     ELSE a1,
                     result)
      [] function_name = "get_related_products" ->
         IF ~("product_id" \in arguments.keys
              /\ arguments.keys \subseteq {"product_id", "limit"})
         THEN Raise
         ELSE LET result == ProductsResult(get_related_products(
                                arguments.product_id, Get(arguments, "limit", 3)))
              IN  Ok(WithProducts(Called(acc, "product_service.get_related_products"),
                                  result),
                     result)
      [] function_name = "add_to_cart" ->
         LET g == Gate_add_to_cart(acc, arguments, session_id)
         IN  Ok(g.acc, g.result)
      [] function_name = "get_cart" ->
         LET r == get_cart(acc.carts, session_id)
         IN  Ok([Called(acc, "cart_service.get_cart") EXCEPT !.carts = r.carts],
                CartResult(r.cart))
      [] function_name = "create_checkout" ->
         LET g == Gate_create_checkout(acc, arguments, session_id)
         IN  Ok(g.acc, g.result)
      [] OTHER -> Ok(acc, ErrorResult("Unknown tool"))

\* a gated branch that goes on to the next call without its tool message
AppendToolResult_SkipsGated(acc, tool_call, result) ==
    LET dumped == JsonDumps(result)
    IN  IF dumped.raised THEN [acc EXCEPT !.raised = TRUE]
        ELSE IF result.status = "waiting_for_confirmation" THEN acc
        ELSE [acc EXCEPT !.messages =
                 Append(acc.messages, ToolMsg(tool_call.id, tool_call.name, dumped.text))]

\* lines 542-548: json.dumps(result) and the append of the tool message
AppendToolResult(acc, tool_call, result) ==
    LET dumped == JsonDumps(result)
    IN  IF dumped.raised THEN [acc EXCEPT !.raised = TRUE]
        ELSE [acc EXCEPT !.messages =
                 Append(acc.messages, ToolMsg(tool_call.id, tool_call.name, dumped.text))]

\* lines 477-548: one pass of the loop body
ToolStep(acc, tool_call, session_id) ==
    IF ~tool_call.arguments.parse_ok
    THEN \* json.loads raises, or what it yields is no dict
         [acc EXCEPT !.raised = TRUE]
    ELSE LET d == CHOOSE x \in {Dispatch(acc, tool_call.name, tool_call.arguments,
                                         session_id)} : TRUE
         IN  IF d.raised THEN [acc EXCEPT !.raised = TRUE]
             ELSE AppendToolResult(d.acc, tool_call, d.result)

\* `for tool_call in assistant_message.tool_calls`: an exception leaves the loop
RECURSIVE ToolLoop(_, _, _, _)
ToolLoop(acc, tool_calls, i, session_id) ==
    IF i > Len(tool_calls) \/ acc.raised THEN acc
    ELSE LET next == CHOOSE a \in {ToolStep(acc, tool_calls[i], session_id)} : TRUE
         IN  ToolLoop(next, tool_calls, i + 1, session_id)

\* ---------------------------------------------------------------- state
VARIABLES
    conversations,  \* the agent's conversation_<session_id> attributes
    turn,           \* per session: where its process_message call stands, and its locals
    result,         \* per session: what its last process_message call returned
    carts,          \* CartService.carts
    payments,       \* the checkout sessions created at the payment provider
    action_result,  \* what the last execute_action call returned
    n_turns,        \* process_message calls started so far
    n_actions,      \* execute_action calls made so far
    agent_instances,     \* main.py: the session ids that have an agent
    active_connections,  \* main.py: session id -> the WebSocket stored for it
    websockets,          \* every WebSocket the server accepted, open or closed
    response             \* the HTTP answer of the last confirm_action request

vars == <<conversations, turn, result, carts, payments, action_result, n_turns, n_actions,
          agent_instances, active_connections, websockets, response>>

\* the module-level state of main.py and its connections
server_vars == <<agent_instances, active_connections, websockets, response>>

\* no entry in active_connections; no request answered yet
NoWebSocket == 0
NoResponse == [status_code |-> 0, detail |-> None]

\* no conversation_<session_id> attribute yet
NoConversation == [exists |-> FALSE, messages |-> <<>>, has_image |-> FALSE]

\* process_message line 379: the conversation state of a first message
NewConversation ==
    [exists |-> TRUE, messages |-> <<SystemMsg(SYSTEM_PROMPT)>>, has_image |-> FALSE]

\* a session with no process_message call in progress
IdleTurn ==
    [pc |-> "idle", no |-> 0, is_image_upload |-> FALSE, assistant_message |-> NoMsg,
     suggested_products |-> <<>>, requires_action |-> FALSE,
     action_data |-> NoActionData, calls |-> <<>>, start |-> <<>>,
     image |-> None, forced |-> FALSE,
     \* the message argument as received, the modes of the Completion Client
     \* calls made so far, and whether one of them raised
     message |-> None, completions |-> <<>>, upstream_error |-> FALSE]

NoTurnResult ==
    [returned |-> FALSE, response |-> None, suggested_products |-> <<>>,
     requires_action |-> FALSE, action_data |-> NoActionData]

\* the dict returned at the end of the try block
TurnResult(response_text, suggested_products, requires_action, action_data) ==
    [returned |-> TRUE, response |-> response_text,
     suggested_products |-> suggested_products,
     requires_action |-> requires_action, action_data |-> action_data]

\* the dict returned by the except branch of process_message
ERROR_TEXT == "I'm sorry, I encountered an error processing your request."
DegradedResult == TurnResult(ERROR_TEXT, <<>>, FALSE, NoActionData)

NoActionResult ==
    [status |-> None, message |-> None, quantity |-> 0,
     cart |-> NoCartDict, checkout_error |-> None]

Init ==
    /\ conversations = [s \in Sessions |-> NoConversation]
    /\ turn = [s \in Sessions |-> IdleTurn]
    /\ result = [s \in Sessions |-> NoTurnResult]
    /\ carts = [s \in Sessions |-> NoCart]
    /\ payments = <<>>
    /\ action_result = NoActionResult
    /\ n_turns = 0
    /\ n_actions = 0
    /\ agent_instances = {}
    /\ active_connections = [s \in Sessions |-> NoWebSocket]
    /\ websockets = <<>>
    /\ response = NoResponse

Last(seq) == seq[Len(seq)]

\* the replacement done at index 0 instead of -1
ReplaceLast_First(messages, m) == [messages EXCEPT ![1] = m]

\* the replacement keeps the system prompt and drops the rest of the history
ReplaceLast_DropsHistory(messages, m) == <<messages[1], m>>

\* messages[-1] = m
ReplaceLast(messages, m) == [messages EXCEPT ![Len(messages)] = m]

\* --------------------------------------------------- process_message
\* image_data values: None, a base64 string, or a truthy value that is not a
\* string (the WebSocket endpoint passes any JSON value through)
IMAGE == "aGVsbG8="
NOT_A_STRING == "<non-str>"

\* the image embedded whatever has_image says
UserMessageOf_AlwaysEmbeds(conversation, message, image_data) ==
    IF image_data = None \/ image_data = NOT_A_STRING
    THEN [message |-> UserMsg(message, None), has_image |-> conversation.has_image]
    ELSE [message |-> UserMsg(IF message = "" THEN DEFAULT_IMAGE_TEXT ELSE message,
                              image_data),
          has_image |-> TRUE]

\* lines 391-432: the user message of the turn and the has_image flag after it
UserMessageOf(conversation, message, image_data) ==
    IF image_data = None \/ image_data = NOT_A_STRING
    THEN \* no image, or ValueError caught: continue without the image
         [message |-> UserMsg(message, None), has_image |-> conversation.has_image]
    ELSE IF ~conversation.has_image
         THEN [message |-> UserMsg(IF message = "" THEN DEFAULT_IMAGE_TEXT ELSE message,
                                   image_data),
               has_image |-> TRUE]
         ELSE [message |-> UserMsg(message, None), has_image |-> TRUE]

\* the except branch handing back what the turn had collected
Return_KeepsLocals(s, conversation, t, res) ==
    /\ conversations' = [conversations EXCEPT ![s] = conversation]
    /\ turn' = [turn EXCEPT ![s] = [t EXCEPT !.pc = "done"]]
    /\ result' = [result EXCEPT ![s] =
           [res EXCEPT !.suggested_products = t.suggested_products,
                       !.requires_action = t.requires_action,
                       !.action_data = t.action_data]]

\* the result is produced but the call never gets back to its caller
Return_NeverReturns(s, conversation, t, res) ==
    /\ UNCHANGED <<conversations, turn>>
    /\ result' = [result EXCEPT ![s] = res]

\* the return statements of process_message: the call is over
Return(s, conversation, t, res) ==
    /\ conversations' = [conversations EXCEPT ![s] = conversation]
    /\ turn' = [turn EXCEPT ![s] = [t EXCEPT !.pc = "done"]]
    /\ result' = [result EXCEPT ![s] = res]

\* lines 376-441: up to the first Completion Client call
StartTurn(s, message, image_data) ==
    /\ turn[s].pc \in {"idle", "done"}
    /\ n_turns < MaxTurns
    /\ LET conversation == IF conversations[s].exists THEN conversations[s]
                           ELSE NewConversation
           um == UserMessageOf(conversation, message, image_data)
       IN  /\ conversations' = [conversations EXCEPT ![s] =
                  [conversation EXCEPT !.messages = Append(conversation.messages, um.message),
                                       !.has_image = um.has_image]]
           /\ turn' = [turn EXCEPT ![s] =
                  [IdleTurn EXCEPT !.pc = "auto", !.no = n_turns + 1,
                                   !.is_image_upload = (image_data # None),
                                   !.image = image_data,
                                   !.message = message,
                                   !.completions = <<"auto">>,
                                   !.start = conversations[s].messages]]
    /\ result' = [result EXCEPT ![s] = NoTurnResult]
    /\ n_turns' = n_turns + 1
    /\ UNCHANGED <<carts, payments, action_result, n_actions>>

\* lines 473-570: from `if assistant_message.tool_calls` to the final call or
\* the return; conversation and t are the state after the assistant message
AfterAssistant(s, conversation, t) ==
    IF t.assistant_message.tool_calls # <<>>
    THEN \E acc \in {ToolLoop([raised |-> FALSE,
                              messages |-> conversation.messages,
                              carts |-> carts,
                              suggested_products |-> t.suggested_products,
                              requires_action |-> t.requires_action,
                              action_data |-> t.action_data,
                              calls |-> t.calls],
                             t.assistant_message.tool_calls, 1, s)} :
         LET conv1 == [conversation EXCEPT !.messages = acc.messages]
             t1 == [t EXCEPT !.suggested_products = acc.suggested_products,
                             !.requires_action = acc.requires_action,
                             !.action_data = acc.action_data,
                             !.calls = acc.calls]
         IN  /\ carts' = acc.carts
             /\ IF acc.raised
                THEN Return(s, conv1, t1, DegradedResult)
                ELSE /\ conversations' = [conversations EXCEPT ![s] = conv1]
                     /\ turn' = [turn EXCEPT ![s] =
                            [t1 EXCEPT !.pc = "final",
                                       !.completions = Append(@, "final")]]
                     /\ UNCHANGED result
    ELSE /\ Return(s, conversation, t,
                   TurnResult(IF t.assistant_message.content = None THEN FALLBACK_TEXT
                              ELSE t.assistant_message.content,
                              t.suggested_products, t.requires_action, t.action_data))
         /\ UNCHANGED carts

\* lines 436-471: the auto-mode call returns (or raises)
AutoResponse(s, raised, assistant_message) ==
    /\ turn[s].pc = "auto"
    /\ IF raised
       THEN /\ Return(s, conversations[s], [turn[s] EXCEPT !.upstream_error = TRUE],
                      DegradedResult)
            /\ UNCHANGED carts
       ELSE LET conv1 == [conversations[s] EXCEPT
                             !.messages = Append(@, assistant_message)]
                t1 == [turn[s] EXCEPT !.assistant_message = assistant_message]
            IN  IF t1.is_image_upload /\ assistant_message.tool_calls = <<>>
                THEN /\ conversations' = [conversations EXCEPT ![s] =
                            [conv1 EXCEPT !.messages = Append(@, SystemMsg(NUDGE))]]
                     /\ turn' = [turn EXCEPT ![s] =
                            [t1 EXCEPT !.pc = "forced",
                                       !.completions = Append(@, "forced")]]
                     /\ UNCHANGED <<result, carts>>
                ELSE AfterAssistant(s, conv1, t1)
    /\ UNCHANGED <<payments, action_result, n_turns, n_actions>>

\* lines 462-471: the forced-mode call returns (or raises)
ForcedResponse(s, raised, assistant_message) ==
    /\ turn[s].pc = "forced"
    /\ IF raised
       THEN /\ Return(s, conversations[s], [turn[s] EXCEPT !.upstream_error = TRUE],
                      DegradedResult)
            /\ UNCHANGED carts
       ELSE AfterAssistant(s,
                [conversations[s] EXCEPT !.messages = ReplaceLast(@, assistant_message)],
                [turn[s] EXCEPT !.assistant_message = assistant_message, !.forced = TRUE])
    /\ UNCHANGED <<payments, action_result, n_turns, n_actions>>

\* the narration is returned to the caller but not kept in the transcript
FinalResponse_NotAppended(s, raised, final_message) ==
    /\ turn[s].pc = "final"
    /\ IF raised
       THEN Return(s, conversations[s], [turn[s] EXCEPT !.upstream_error = TRUE],
                   DegradedResult)
       ELSE Return(s, conversations[s], turn[s],
                   TurnResult(final_message.content, turn[s].suggested_products,
                              turn[s].requires_action, turn[s].action_data))
    /\ UNCHANGED <<carts, payments, action_result, n_turns, n_actions>>

\* lines 551-570: the narration call returns (or raises)
FinalResponse(s, raised, final_message) ==
    /\ turn[s].pc = "final"
    /\ IF raised
       THEN Return(s, conversations[s], [turn[s] EXCEPT !.upstream_error = TRUE],
                   DegradedResult)
       ELSE Return(s, [conversations[s] EXCEPT !.messages = Append(@, final_message)],
                   turn[s],
                   TurnResult(final_message.content, turn[s].suggested_products,
                              turn[s].requires_action, turn[s].action_data))
    /\ UNCHANGED <<carts, payments, action_result, n_turns, n_actions>>

\* ---------------------------------------------------- execute_action
ActionResult(status, message) ==
    [status |-> status, message |-> message, quantity |-> 0,
     cart |-> NoCartDict, checkout_error |-> None]

\* a "product" value of action_data that is no dict (the confirmation request
\* carries any JSON value): `.get("id")` on it raises AttributeError
NOT_A_DICT == [id |-> "<non-dict>", error |-> None]
ATTRIBUTE_ERROR == "'str' object has no attribute 'get'"

\* the exception leaving execute_action instead of being turned into a result
ExceptResult_Propagates(e) == ActionResult("raised", e)

\* lines 638-640: the except clause of execute_action
ExceptResult(e) == ActionResult("error", e)

\* the check without the email
MissingCheckoutData_IgnoresEmail(session_id, email, success_url, cancel_url) ==
    session_id = None \/ success_url = None \/ cancel_url = None

\* line 617: `if not session_id or not email or not success_url or not cancel_url`
MissingCheckoutData(session_id, email, success_url, cancel_url) ==
    session_id = None \/ email = None \/ success_url = None \/ cancel_url = None

\* the confirmed flag is not looked at
Cancelled_Never(confirmed) == FALSE

\* line 592: `if not confirmed`
Cancelled(confirmed) == ~confirmed

\* the outcome of the action noted in every transcript
ConversationsAfterAction_Recorded(convs, action_type) ==
    [s \in Sessions |->
        IF convs[s].exists
        THEN [convs[s] EXCEPT !.messages = Append(@, SystemMsg(action_type))]
        ELSE convs[s]]

\* lines 580-640: execute_action reads and writes no conversation
ConversationsAfterAction(convs, action_type) == convs

\* ShoppingAgent.execute_action; stripe_ok is the payment provider's outcome
ExecuteAction(action_type, action_data, confirmed, stripe_ok) ==
    /\ n_actions < MaxActions
    /\ n_actions' = n_actions + 1
    /\ IF Cancelled(confirmed)
       THEN /\ action_result' = ActionResult("cancelled", "Action cancelled by user")
            /\ UNCHANGED <<carts, payments>>
       ELSE CASE action_type = "add_to_cart" ->
                 LET session_id == Get(action_data, "session_id", None)
                     product == Get(action_data, "product", NoProduct)
                     product_id == product.id
                     quantity == Get(action_data, "quantity", 1)
                 IN  IF product = NOT_A_DICT
                     THEN /\ action_result' = ExceptResult(ATTRIBUTE_ERROR)
                          /\ UNCHANGED <<carts, payments>>
                     ELSE
                     IF session_id = None \/ product_id = None
                     THEN /\ action_result' =
                                 ActionResult("error", "Missing required data for add_to_cart")
                          /\ UNCHANGED <<carts, payments>>
                     ELSE LET r == add_to_cart(carts, session_id, product_id, quantity)
                          IN  /\ carts' = r.carts
                              /\ action_result' =
                                     [ActionResult("success", "Added item(s) to cart")
                                         EXCEPT !.quantity = quantity, !.cart = r.cart]
                              /\ UNCHANGED payments
              [] action_type = "checkout" ->
                 LET session_id == Get(action_data, "session_id", None)
                     email == Get(action_data, "email", None)
                     success_url == Get(action_data, "success_url", None)
                     cancel_url == Get(action_data, "cancel_url", None)
                 IN  IF MissingCheckoutData(session_id, email, success_url, cancel_url)
                     THEN /\ action_result' =
                                 ActionResult("error", "Missing required data for checkout")
                          /\ UNCHANGED <<carts, payments>>
                     ELSE LET r == create_checkout(payments, carts, session_id, email,
                                                   success_url, cancel_url, stripe_ok)
                          IN  /\ carts' = r.carts
                              /\ payments' = r.payments
                              /\ action_result' =
                                     [ActionResult("success", "Checkout created successfully")
                                         EXCEPT !.checkout_error = r.error]
              [] OTHER ->
                 /\ action_result' = ActionResult("error", "Unknown action type")
                 /\ UNCHANGED <<carts, payments>>
    /\ conversations' = ConversationsAfterAction(conversations, action_type)
    /\ UNCHANGED <<turn, result, n_turns>>

\* ------------------------------------------------------------ inputs
\* what the Completion Client may put in a tool call
Args(keys) == [NoArgs EXCEPT !.keys = keys]

CallSearch ==
    [name |-> "search_products",
     arguments |-> [Args({"query"}) EXCEPT !.query = LAPTOPS]]
CallSearchNoQuery == [name |-> "search_products", arguments |-> Args({})]
CallDetails ==
    [name |-> "get_product_details",
     arguments |-> [Args({"product_id"}) EXCEPT !.product_id = "p1001"]]
CallRelated ==
    [name |-> "get_related_products",
     arguments |-> [Args({"product_id"}) EXCEPT !.product_id = "p1001"]]
CallAdd ==
    [name |-> "add_to_cart",
     arguments |-> [Args({"product_id"}) EXCEPT !.product_id = "p1001"]]
CallAddUnknown ==
    [name |-> "add_to_cart",
     arguments |-> [Args({"product_id"}) EXCEPT !.product_id = "p9999"]]
CallAddTwo ==
    [name |-> "add_to_cart",
     arguments |-> [Args({"product_id", "quantity"}) EXCEPT !.product_id = "p1002", !.quantity = 2]]
CallAddUnknownProduct ==
    [name |-> "add_to_cart",
     arguments |-> [Args({"product_id", "quantity"}) EXCEPT !.product_id = "p9999", !.quantity = 1]]
CallSearchBadFilters ==
    [name |-> "search_products",
     arguments |-> [Args({"query", "filters"}) EXCEPT !.query = LAPTOPS,
                                                      !.filters = BAD_FILTERS]]
CallDetailsUnknown ==
    [name |-> "get_product_details",
     arguments |-> [Args({"product_id"}) EXCEPT !.product_id = "p9999"]]
CallRelatedNone ==
    [name |-> "get_related_products",
     arguments |-> [Args({"product_id"}) EXCEPT !.product_id = "p1003"]]
CallGetCart == [name |-> "get_cart", arguments |-> Args({})]
CallCheckout ==
    [name |-> "create_checkout",
     arguments |-> [Args({"email", "success_url", "cancel_url"}) EXCEPT
                       !.email = "a@b.c", !.success_url = "https://ok", !.cancel_url = "https://no"]]
CallUnknownTool == [name |-> "track_order", arguments |-> Args({})]
CallMalformed == [name |-> "add_to_cart", arguments |-> [NoArgs EXCEPT !.parse_ok = FALSE]]

\* tool-call ids are unique: the ordinal of the turn and the position in the list
CallId(no, i) == no * (MaxBatch + 2) + i

\* a tool-call list of turn number no: the calls of f with their ids
Batch(no, f) ==
    [i \in DOMAIN f |-> [id |-> CallId(no, i), name |-> f[i].name,
                         arguments |-> f[i].arguments]]

\* forced mode: exactly one search_products call
ForcedMessages(no) ==
    {AssistantMsg(None, <<[id |-> CallId(no, MaxBatch + 1), name |-> CallSearch.name,
                           arguments |-> CallSearch.arguments]>>)}

\* the narration call is made without tool specs
FinalMessages == {AssistantMsg("Here is what I found", <<>>)}

\* action_data dicts a client may send to execute_action
AddData(session_id, product, quantity) ==
    [NoActionData EXCEPT !.keys = {"type", "product", "quantity", "session_id"},
                         !.type = "add_to_cart", !.product = product,
                         !.quantity = quantity, !.session_id = session_id]

\* the cart dict captured when create_checkout was gated: one line of p1003
CartSnapshot(session_id) ==
    CartDict([exists |-> TRUE, items |-> <<[product_id |-> "p1003", quantity |-> 1]>>],
             session_id)

CheckoutData(session_id, email, success_url, cancel_url) ==
    [NoActionData EXCEPT !.keys = {"type", "cart", "email", "success_url",
                                   "cancel_url", "session_id"},
                         !.type = "checkout", !.cart = CartSnapshot(session_id),
                         !.email = email,
                         !.success_url = success_url, !.cancel_url = cancel_url,
                         !.session_id = session_id]

\* the dict without its "quantity" key
WithoutQuantity(d) == [d EXCEPT !.keys = @ \ {"quantity"}, !.quantity = 0]

ActionTypes == {"add_to_cart", "checkout", "remove_from_cart"}

AddDatas ==
    {AddData(s, p, q) : s \in Sessions \cup {None},
                        p \in {ProductDict("p1001"), ProductDict("p1002"),
                               ProductDict("p9999"), ProductError("Product not found"),
                               NOT_A_DICT},
                        q \in {-1, 1, 2}}
    \cup {WithoutQuantity(AddData(s, ProductDict("p1001"), 0)) : s \in Sessions}

CheckoutDatas ==
    {CheckoutData(s, e, u, c) : s \in Sessions \cup {None}, e \in {None, "a@b.c"},
                                u \in {None, "https://ok"}, c \in {None, "https://no"}}

ActionDatas == AddDatas \cup CheckoutDatas \cup {NoActionData}

\* ------------------------------------------------------- specifications
\* main.py calls process_message and execute_action synchronously inside its
\* async handlers: a request runs to its end before the next one starts
Quiescent == \A s \in Sessions : turn[s].pc \in {"idle", "done"}

\* the steps of process_message for the sessions in ss: (message, image_data)
\* from inputs, plain answers from contents, tool-call lists of at most maxlen
\* calls over choices, at most maxturns turns in all; serial is whether a
\* turn starts only when no other is in progress
TurnSteps(ss, inputs, contents, choices, maxlen, maxturns, serial) ==
    \/ /\ serial => Quiescent
       /\ n_turns < maxturns
       /\ \E s \in ss, i \in inputs : StartTurn(s, i[1], i[2])
       /\ UNCHANGED server_vars
    \* auto mode: plain text, or a non-empty tool-call list
    \/ \E s \in ss :
           /\ turn[s].pc = "auto"
           /\ \E c \in contents : AutoResponse(s, FALSE, AssistantMsg(c, <<>>))
           /\ UNCHANGED server_vars
    \/ \E s \in ss :
           /\ turn[s].pc = "auto"
           /\ \E n \in 1..maxlen : \E f \in [1..n -> choices] :
                  AutoResponse(s, FALSE, AssistantMsg(None, Batch(turn[s].no, f)))
           /\ UNCHANGED server_vars
    \/ \E s \in ss : AutoResponse(s, TRUE, NoMsg) /\ UNCHANGED server_vars
    \/ \E s \in ss :
           /\ turn[s].pc = "forced"
           /\ \E m \in ForcedMessages(turn[s].no) : ForcedResponse(s, FALSE, m)
           /\ UNCHANGED server_vars
    \/ \E s \in ss : ForcedResponse(s, TRUE, NoMsg) /\ UNCHANGED server_vars
    \/ \E s \in ss :
           /\ turn[s].pc = "final"
           /\ \E m \in FinalMessages : FinalResponse(s, FALSE, m)
           /\ UNCHANGED server_vars
    \/ \E s \in ss : FinalResponse(s, TRUE, NoMsg) /\ UNCHANGED server_vars

ActionSteps(types, datas) ==
    /\ n_actions < MaxActions
    /\ \E action_type \in types, action_data \in datas, confirmed \in BOOLEAN,
       stripe_ok \in BOOLEAN :
           ExecuteAction(action_type, action_data, confirmed, stripe_ok)
    /\ UNCHANGED server_vars

\* Spec: conversations over several turns of two sessions, with and without
\* images, and confirmations in between
ConvInputs == {<<"hi", None>>, <<"", IMAGE>>, <<"hi", NOT_A_STRING>>}

Next ==
    \/ TurnSteps(Sessions, ConvInputs, {"Sure"}, {CallSearch}, 1, MaxTurns, TRUE)
    \/ Quiescent /\ ActionSteps({"add_to_cart"}, {AddData("s1", ProductDict("p1001"), 1)})

Spec == Init /\ [][Next]_vars

\* SpecBatch: confirmations that fill the cart, then one turn of one session
\* whose assistant message carries up to MaxBatch tool calls of every kind
BatchChoices ==
    {CallSearch, CallSearchNoQuery, CallDetails, CallRelated, CallAdd, CallAddTwo,
     CallGetCart, CallCheckout, CallUnknownTool, CallMalformed}

NextBatch ==
    \/ TurnSteps({"s1"}, {<<"hi", None>>, <<"", IMAGE>>}, {"Sure", None}, BatchChoices,
                 MaxBatch, 1, TRUE)
    \/ n_turns = 0 /\ ActionSteps({"add_to_cart"}, {AddData("s1", ProductDict("p1001"), 1)})

SpecBatch == Init /\ [][NextBatch]_vars

\* SpecAction: execute_action calls with every action type and action_data a
\* client may send
NextAction == ActionSteps(ActionTypes, ActionDatas)

SpecAction == Init /\ [][NextAction]_vars

\* SpecConcurrent: the turns of the two sessions interleaved at every
\* Completion Client call (handlers run in parallel), after confirmations that
\* fill a cart
ConcurrentChoices == {CallSearch, CallGetCart}

NextConcurrent ==
    \/ TurnSteps(Sessions, {<<"hi", None>>, <<"", IMAGE>>}, {"Sure"}, ConcurrentChoices,
                 1, MaxTurns, FALSE)
    \/ n_turns = 0 /\ ActionSteps({"add_to_cart"}, {AddData("s1", ProductDict("p1001"), 1)})

SpecConcurrent == Init /\ [][NextConcurrent]_vars

\* SpecTurns: several turns of one session, one after the other, whose
\* assistant messages carry up to two tool calls; get_cart makes the tool loop
\* raise
TurnChoices == {CallSearch, CallAdd, CallGetCart}

NextTurns ==
    TurnSteps({"s1"}, {<<"hi", None>>, <<"", IMAGE>>}, {"Sure"}, TurnChoices, 2,
              MaxTurns, TRUE)

SpecTurns == Init /\ [][NextTurns]_vars

\* SpecProducts: one turn of one session whose assistant message carries up
\* to MaxBatch calls of the product tools, with results that are empty, not
\* found, or an exception of the product service
ProductChoices ==
    {CallSearch, CallSearchBadFilters, CallDetails, CallDetailsUnknown, CallRelated,
     CallRelatedNone}

NextProducts ==
    TurnSteps({"s1"}, {<<"hi", None>>, <<"", IMAGE>>}, {"Sure"}, ProductChoices,
              MaxBatch, 1, TRUE)

SpecProducts == Init /\ [][NextProducts]_vars

\* SpecConfirm: execute_action calls with every action type and action_data,
\* before and after one turn of s1 (confirm_action and chat are separate
\* requests); the turn may gate an add_to_cart of a product not in the catalog
NextConfirm ==
    \/ TurnSteps({"s1"}, {<<"hi", None>>, <<"", IMAGE>>}, {"Sure"}, {CallAddUnknown},
                 1, 1, TRUE)
    \/ Quiescent /\ ActionSteps(ActionTypes, ActionDatas)

SpecConfirm == Init /\ [][NextConfirm]_vars

\* SpecLive: the turns of SpecTurns, where every Completion Client call in
\* flight eventually returns or raises (the handlers call process_message
\* synchronously and the collaborators are in-process)
SpecLive == Init /\ [][NextTurns]_vars /\ WF_vars(~Quiescent /\ NextTurns)

\* ---------------------------------------------------------------- main.py
\* str(e) of the HTTPException raised inside the try block: the status and the
\* detail, or the empty string, depending on the installed Starlette
HTTPExceptionStr == {"404: Session not found", None}

\* lines 157-181: POST /api/action/confirm. The 404 is raised inside the try
\* block, and HTTPException is an Exception: the except clause answers 500.
confirm_action(session_id, action_type, action_data, confirmed, stripe_ok) ==
    /\ Quiescent
    /\ IF session_id \notin agent_instances
       THEN /\ \E detail \in HTTPExceptionStr :
                   response' = [status_code |-> 500, detail |-> detail]
            /\ UNCHANGED <<conversations, turn, result, carts, payments, action_result,
                           n_turns, n_actions>>
       ELSE /\ ExecuteAction(action_type, action_data, confirmed, stripe_ok)
            /\ response' = [status_code |-> 200, detail |-> None]
    /\ UNCHANGED <<agent_instances, active_connections, websockets>>

\* lines 63-89: POST /api/chat up to the Completion Client call of the turn
chat(session_id, message, image_data) ==
    /\ Quiescent
    /\ agent_instances' = agent_instances \cup {session_id}
    /\ StartTurn(session_id, message, image_data)
    /\ UNCHANGED <<active_connections, websockets, response>>

\* lines 281-295: a client connects to /ws/{session_id}
websocket_accept(session_id) ==
    /\ Quiescent
    /\ Len(websockets) < MaxConnections
    /\ websockets' = Append(websockets, [session_id |-> session_id, open |-> TRUE])
    /\ active_connections' = [active_connections EXCEPT ![session_id] = Len(websockets) + 1]
    /\ agent_instances' = agent_instances \cup {session_id}
    /\ UNCHANGED <<conversations, turn, result, carts, payments, action_result,
                   n_turns, n_actions, response>>

\* lines 297-307: a message arrives on websocket ws and its turn starts
websocket_receive(ws, message, image_data) ==
    /\ Quiescent
    /\ websockets[ws].open
    /\ StartTurn(websockets[ws].session_id, message, image_data)
    /\ UNCHANGED server_vars

\* lines 318-321: the client of websocket ws has gone
WebSocketDisconnect(ws) ==
    LET session_id == websockets[ws].session_id
    IN  /\ Quiescent
        /\ websockets[ws].open
        /\ websockets' = [websockets EXCEPT ![ws].open = FALSE]
        /\ active_connections' =
               IF active_connections[session_id] # NoWebSocket
               THEN [active_connections EXCEPT ![session_id] = NoWebSocket]
               ELSE active_connections
        /\ UNCHANGED <<conversations, turn, result, carts, payments, action_result,
                       n_turns, n_actions, agent_instances, response>>

\* lines 322-324: what arrived on ws is not a JSON object (json.loads or .get
\* raises): the server closes the socket
websocket_exception(ws) ==
    /\ Quiescent
    /\ websockets[ws].open
    /\ websockets' = [websockets EXCEPT ![ws].open = FALSE]
    /\ UNCHANGED <<conversations, turn, result, carts, payments, action_result,
                   n_turns, n_actions, agent_instances, active_connections, response>>

\* SpecServer: the requests of main.py: chat and WebSocket turns of two
\* sessions, connections that come and go, and confirmations naming any
\* session in the request and in the action data
ConfirmDatas == {AddData(s, ProductDict("p1001"), 1) : s \in Sessions}

NextServer ==
    \/ \E s \in Sessions : chat(s, "hi", None)
    \/ \E s \in Sessions : websocket_accept(s)
    \/ \E ws \in DOMAIN websockets : websocket_receive(ws, "hi", None)
    \/ \E ws \in DOMAIN websockets : WebSocketDisconnect(ws)
    \/ \E ws \in DOMAIN websockets : websocket_exception(ws)
    \/ \E s \in Sessions : AutoResponse(s, FALSE, AssistantMsg("Sure", <<>>))
                               /\ UNCHANGED server_vars
    \/ \E s \in Sessions, action_data \in ConfirmDatas, confirmed \in BOOLEAN :
           confirm_action(s, "add_to_cart", action_data, confirmed, TRUE)

SpecServer == Init /\ [][NextServer]_vars

\* ------------------------------------------------------- cart operations
\* the quantities of the lines stay within the bound
WithinMaxQuantity(cs) ==
    \A s \in Sessions : \A i \in 1..Len(cs[s].items) :
        cs[s].items[i].quantity \in -MaxQuantity..MaxQuantity

\* one call of cart_service.add_to_cart; a ValueError leaves what get_cart did
CartAdd(s, pid, q) ==
    /\ carts' = CartService_add_to_cart(carts, s, pid, q).carts
    /\ WithinMaxQuantity(carts')
    /\ UNCHANGED <<conversations, turn, result, payments, action_result, n_turns,
                   n_actions, server_vars>>

\* one call of cart_service.update_quantity
CartUpdate(s, pid, q) ==
    /\ carts' = CartService_update_quantity(carts, s, pid, q).carts
    /\ UNCHANGED <<conversations, turn, result, payments, action_result, n_turns,
                   n_actions, server_vars>>

\* one call of cart_service.remove_from_cart
CartRemove(s, pid) ==
    /\ carts' = CartService_remove_from_cart(carts, s, pid)
    /\ UNCHANGED <<conversations, turn, result, payments, action_result, n_turns,
                   n_actions, server_vars>>

\* one call of cart_service.clear_cart
CartClear(s) ==
    /\ carts' = CartService_clear_cart(carts, s)
    /\ UNCHANGED <<conversations, turn, result, payments, action_result, n_turns,
                   n_actions, server_vars>>

\* SpecCart: the operations of the cart service called in any order for two
\* sessions, with products in and out of the catalog and quantities of either
\* sign
NextCart ==
    \/ \E s \in Sessions, pid \in {"p1001", "p1002", "p9999"}, q \in {-1, 1} :
           CartAdd(s, pid, q)
    \/ \E s \in Sessions, pid \in {"p1001", "p1002", "p9999"}, q \in {0, 2} :
           CartUpdate(s, pid, q)
    \/ \E s \in Sessions, pid \in {"p1001", "p1002", "p9999"} : CartRemove(s, pid)
    \/ \E s \in Sessions : CartClear(s)

SpecCart == Init /\ [][NextCart]_vars

\* ------------------------------------------------------------- claims
\* what a turn has appended to the transcript so far
Appended(s) ==
    SubSeq(conversations[s].messages, Len(turn[s].start) + 1,
           Len(conversations[s].messages))

\* the turn of s has returned, and not through the except branch
Completed(s) == turn[s].pc = "done" /\ result[s] # DegradedResult

\* C1: in every reachable state of every session that has a conversation, the
\* first message of the transcript is the fixed system prompt (turns with the
\* forced replacement, aborted turns and execute_action calls included).
C1_FirstIsSystemPrompt ==
    \A s \in Sessions :
        conversations[s].exists =>
            /\ Len(conversations[s].messages) >= 1
            /\ conversations[s].messages[1] = SystemMsg(SYSTEM_PROMPT)

\* a second turn of a session went through the forced replacement after a
\* confirmation was executed, and the system prompt is still first
C1_Witness ==
    \E s \in Sessions :
        /\ turn[s].pc = "done" /\ turn[s].forced
        /\ turn[s].start # <<>>
        /\ n_actions >= 1
        /\ conversations[s].messages[1] = SystemMsg(SYSTEM_PROMPT)

\* the cart lines and the payment sessions
Items(cs) == [s \in Sessions |-> cs[s].items]

\* C2: no step of process_message changes the items of any session's cart or
\* the created payment sessions, whatever tool calls the assistant message
\* carries, and no such step calls the cart's add operation or the payment
\* provider: gated calls are never executed inside the turn.
C2_GatedNotExecuted ==
    [][(turn' # turn) =>
          /\ Items(carts') = Items(carts)
          /\ payments' = payments
          /\ \A s \in Sessions : \A i \in 1..Len(turn'[s].calls) :
                 turn'[s].calls[i] \notin {"cart_service.add_to_cart",
                                           "payment_service.create_payment_session"}]_vars

\* a turn whose assistant message asked for add_to_cart returned with the
\* pending action while the cart filled before the turn is as it was
C2_Witness ==
    /\ turn["s1"].pc = "done"
    /\ result["s1"].requires_action
    /\ \E i \in 1..Len(turn["s1"].assistant_message.tool_calls) :
           turn["s1"].assistant_message.tool_calls[i].name = "add_to_cart"
    /\ carts["s1"].items = <<[product_id |-> "p1001", quantity |-> 1]>>
    /\ payments = <<>>

\* the quantity of the line of product pid in items, 0 when there is none
RECURSIVE QuantityOf(_, _)
QuantityOf(items, pid) ==
    IF items = <<>> THEN 0
    ELSE (IF Head(items).product_id = pid THEN Head(items).quantity ELSE 0)
         + QuantityOf(Tail(items), pid)

\* the lines of items for products other than pid, in order
OtherLines(items, pid) == SelectSeq(items, LAMBDA line : line.product_id # pid)

\* C3: execute_action with confirmed = false returns status cancelled and
\* leaves the cart store (no cart created, no line changed) and the payment
\* sessions as they were, for every action type and action_data; so does every
\* repetition of the call.
C3_CancelChangesNothing ==
    [][\A action_type \in ActionTypes, action_data \in ActionDatas, stripe_ok \in BOOLEAN :
          ExecuteAction(action_type, action_data, FALSE, stripe_ok) =>
              /\ action_result'.status = "cancelled"
              /\ carts' = carts
              /\ payments' = payments]_vars

\* a repeated cancellation, with a filled cart and a created payment session
\* still in place
C3_Witness ==
    /\ action_result.status = "cancelled"
    /\ n_actions >= 2
    /\ \E s \in Sessions : carts[s].items # <<>> \/ payments # <<>>

\* C4: execute_action with confirmed = true, type add_to_cart, a session s, a
\* product p of the catalog and a quantity q returns status success; afterwards
\* the cart of s holds p with its previous quantity (0 if absent) plus q, and
\* the lines of the other products of that cart are unchanged.
C4_ConfirmedAddAddsQuantity ==
    [][\A action_data \in AddDatas, stripe_ok \in BOOLEAN :
          (/\ action_data.session_id # None
           /\ action_data.product.id \in ProductIds
           /\ ExecuteAction("add_to_cart", action_data, TRUE, stripe_ok)) =>
              LET s == action_data.session_id
                  p == action_data.product.id
                  q == Get(action_data, "quantity", 1)
              IN  /\ action_result'.status = "success"
                  /\ carts'[s].exists
                  /\ QuantityOf(carts'[s].items, p) = QuantityOf(carts[s].items, p) + q
                  /\ \E i \in 1..Len(carts'[s].items) : carts'[s].items[i].product_id = p
                  /\ OtherLines(carts'[s].items, p) = OtherLines(carts[s].items, p)]_vars

\* add_to_cart(p1001, 1) confirmed on an empty cart: quantity 1 of p1001
C4_Witness ==
    /\ n_actions = 1
    /\ action_result.status = "success"
    /\ action_result.message = "Added item(s) to cart"
    /\ action_result.quantity = 1
    /\ carts["s1"].items = <<[product_id |-> "p1001", quantity |-> 1]>>

\* a second confirmation of the same product raised its line to 1 + 2
C4_WitnessAgain ==
    /\ n_actions = 2
    /\ action_result.status = "success"
    /\ action_result.quantity = 2
    /\ carts["s1"].items = <<[product_id |-> "p1001", quantity |-> 3]>>

\* the tool calls of the assistant message the turn of s works on
ToolCalls(s) == turn[s].assistant_message.tool_calls

GatedTools == {"add_to_cart", "create_checkout"}

\* the turn result and the tool message of an add_to_cart call tool_call of s
PendingAddFor(s, tool_call) ==
    LET product == get_product_details(Get(tool_call.arguments, "product_id", None))
    IN  /\ result[s].requires_action
        /\ result[s].action_data.type = "add_to_cart"
        /\ result[s].action_data.session_id = s
        /\ result[s].action_data.quantity = Get(tool_call.arguments, "quantity", 1)
        /\ result[s].action_data.product = product
        /\ \E k \in 1..Len(Appended(s)) :
               /\ Appended(s)[k].role = "tool"
               /\ Appended(s)[k].tool_call_id = tool_call.id
               /\ Appended(s)[k].payload.status = "waiting_for_confirmation"
               /\ Appended(s)[k].payload.product = product

\* position i of the tool-call list of s is an add_to_cart call and no gated
\* call follows it
LastGatedIsAdd(s, i) ==
    /\ ToolCalls(s)[i].name = "add_to_cart"
    /\ \A j \in (i + 1)..Len(ToolCalls(s)) : ToolCalls(s)[j].name \notin GatedTools

\* tools whose dispatch and result never raise, given well-formed arguments
NeverRaising == {"search_products", "get_product_details", "track_order"}


\* the arguments of the call do not parse to a dict, or lack a required
\* parameter of the tool, or carry a key the tool does not declare
Malformed(tool_call) ==
    LET keys == tool_call.arguments.keys
    IN  \/ ~tool_call.arguments.parse_ok
        \/ /\ tool_call.name = "search_products"
           /\ ~("query" \in keys /\ keys \subseteq {"query", "filters"})
        \/ /\ tool_call.name = "get_product_details"
           /\ keys # {"product_id"}
        \/ /\ tool_call.name = "get_related_products"
           /\ ~("product_id" \in keys /\ keys \subseteq {"product_id", "limit"})

\* every call of the list has well-formed arguments and cannot fail
AllWellFormed(s) ==
    \A j \in 1..Len(ToolCalls(s)) :
        /\ ~Malformed(ToolCalls(s)[j])
        /\ ToolCalls(s)[j].name \in NeverRaising \cup {"add_to_cart"}

ToolMessages(s) == SelectSeq(Appended(s), LAMBDA m : m.role = "tool")

\* C8: when the tool loop of a turn has run to its end (the narration call is
\* in flight, or the turn completed), the tool messages the turn appended are
\* exactly one per tool call, in the order of the calls, each with the id and
\* the name of its call.
C8_ToolMessagesInCallOrder ==
    \A s \in Sessions :
        (turn[s].pc = "final" \/ (Completed(s) /\ ToolCalls(s) # <<>>)) =>
            /\ Len(ToolMessages(s)) = Len(ToolCalls(s))
            /\ \A i \in 1..Len(ToolCalls(s)) :
                   /\ ToolMessages(s)[i].tool_call_id = ToolCalls(s)[i].id
                   /\ ToolMessages(s)[i].name = ToolCalls(s)[i].name

\* a completed turn with a read-only, a gated and an unknown call
C8_Witness ==
    /\ Completed("s1")
    /\ Len(ToolCalls("s1")) = 3
    /\ ToolCalls("s1")[1].name = "add_to_cart"
    /\ ToolCalls("s1")[2].name = "track_order"
    /\ ToolCalls("s1")[3].name = "search_products"
    /\ Len(ToolMessages("s1")) = 3

\* C9 as stated: a gated call does not stop the batch. Once the tool loop of a
\* turn is over, every call that follows a gated call has been dispatched and
\* has its tool message (stated for lists whose other calls cannot fail).
C9_GatedDoesNotStopBatch ==
    \A s \in Sessions :
        turn[s].pc \in {"final", "done"} =>
            \A i \in 1..Len(ToolCalls(s)) :
                (/\ ToolCalls(s)[i].name \in GatedTools
                 /\ \A j \in 1..Len(ToolCalls(s)) :
                        /\ ~Malformed(ToolCalls(s)[j])
                        /\ j # i => ToolCalls(s)[j].name \in NeverRaising) =>
                    \A j \in (i + 1)..Len(ToolCalls(s)) :
                        \E k \in 1..Len(Appended(s)) :
                            /\ Appended(s)[k].role = "tool"
                            /\ Appended(s)[k].tool_call_id = ToolCalls(s)[j].id

\* how many nudge messages a transcript holds
NudgeCount(messages) ==
    Cardinality({i \in 1..Len(messages) : messages[i] = SystemMsg(NUDGE)})

\* C6 as stated: after a turn that went through the forced search_products
\* call, the transcript holds exactly one nudge message more than before the
\* turn, and the assistant message of the round is the forced call's message.
C6_OneNudgeAdded ==
    \A s \in Sessions :
        (turn[s].forced /\ turn[s].pc \in {"final", "done"}) =>
            /\ NudgeCount(conversations[s].messages) = NudgeCount(turn[s].start) + 1
            /\ Len(ToolCalls(s)) = 1
            /\ ToolCalls(s)[1].name = "search_products"
            /\ \E k \in 1..Len(Appended(s)) : Appended(s)[k] = turn[s].assistant_message

\* C7 as stated: when the forced message is in place and the tool loop is over
\* (before the narration is appended), the turn's part of the transcript holds
\* no tool-call-free assistant message any more, and it holds the nudge.
C7_AutoMessageReplaced ==
    \A s \in Sessions :
        (turn[s].forced /\ turn[s].pc = "final") =>
            /\ \A k \in 1..Len(Appended(s)) :
                   ~(Appended(s)[k].role = "assistant" /\ Appended(s)[k].tool_calls = <<>>)
            /\ \E k \in 1..Len(Appended(s)) : Appended(s)[k] = SystemMsg(NUDGE)

\* the positions of the messages of s that embed an image
ImageMessages(s) ==
    {i \in 1..Len(conversations[s].messages) : conversations[s].messages[i].image # None}

\* s starts a turn in this step
StartsTurn(s) == turn[s].pc \in {"idle", "done"} /\ turn'[s].pc = "auto"

\* C10: has_image is false in a conversation that never got an image, true
\* from the first turn that carries an image (a base64 string) on, and never
\* goes back to false; the image is embedded in the user message of that first
\* turn only, so a transcript holds at most one image-carrying message and
\* every later image turn appends a text-only user message.
C10_HasImage ==
    /\ [](\A s \in Sessions :
            /\ ~conversations[s].exists => ~conversations[s].has_image
            /\ Cardinality(ImageMessages(s)) <= 1
            /\ conversations[s].has_image <=> ImageMessages(s) # {})
    /\ [][\A s \in Sessions :
            /\ conversations[s].has_image => conversations'[s].has_image
            /\ (StartsTurn(s) /\ turn'[s].image = IMAGE) =>
                   /\ conversations'[s].has_image
                   /\ Last(conversations'[s].messages).role = "user"
                   /\ conversations[s].has_image =>
                          Last(conversations'[s].messages).image = None
                   /\ ~conversations[s].has_image =>
                          Last(conversations'[s].messages).image = IMAGE
            /\ (StartsTurn(s) /\ turn'[s].image # IMAGE) =>
                   conversations'[s].has_image = conversations[s].has_image]_vars

\* a second image turn of a session: its user message is text only and the
\* image of the first one is still the only one
C10_Witness ==
    \E s \in Sessions :
        /\ turn[s].image = IMAGE
        /\ \E i \in 1..Len(turn[s].start) : turn[s].start[i].image = IMAGE
        /\ conversations[s].has_image
        /\ Cardinality(ImageMessages(s)) = 1
        /\ Appended(s)[1].role = "user" /\ Appended(s)[1].image = None

\* ------------------------------------------------------------------ C11
\* a turn of s has started with a valid image and an empty message text
EmptyTextImageTurn(s) ==
    /\ turn[s].pc # "idle"
    /\ turn[s].image = IMAGE
    /\ turn[s].message = ""

\* the user message of the turn: the first message appended, after the system
\* prompt when the turn created the conversation
UserMessage(s) == Appended(s)[IF turn[s].start = <<>> THEN 2 ELSE 1]

\* C11: on every turn that carries an image and whose user text is empty, the
\* user message appended to the transcript carries the default instruction
\* text, whether or not has_image was already true before the turn.
C11_DefaultTextOnEveryImageTurn ==
    \A s \in Sessions :
        EmptyTextImageTurn(s) => UserMessage(s).content = DEFAULT_IMAGE_TEXT

\* ------------------------------------------------------------------ C12
\* C12: when a Completion Client call of a turn fails (auto, forced or final
\* narration call), the turn makes no further Completion Client call and has
\* returned the degraded error response: no suggested products,
\* requires_action false and no action_data, whatever the tool calls of the
\* turn had produced.
C12_UpstreamErrorAborts ==
    /\ [](\A s \in Sessions :
              turn[s].upstream_error =>
                  /\ turn[s].pc = "done"
                  /\ result[s].returned
                  /\ result[s].response = ERROR_TEXT
                  /\ result[s].suggested_products = <<>>
                  /\ ~result[s].requires_action
                  /\ result[s].action_data = NoActionData)
    /\ [][\A s \in Sessions :
              (turn[s].upstream_error /\ turn'[s].no = turn[s].no) =>
                  turn'[s].completions = turn[s].completions]_vars

\* the final narration call failed after the tool calls had produced products
\* and a pending action
C12_Witness ==
    \E s \in Sessions :
        /\ turn[s].upstream_error
        /\ Last(turn[s].completions) = "final"
        /\ turn[s].suggested_products # <<>>
        /\ turn[s].requires_action
        /\ result[s].suggested_products = <<>>
        /\ ~result[s].requires_action

\* the forced call of an image turn failed
C12_WitnessForced ==
    \E s \in Sessions :
        /\ turn[s].upstream_error
        /\ turn[s].completions = <<"auto", "forced">>
        /\ result[s].response = ERROR_TEXT

\* ------------------------------------------------------------------ C13
\* the tool message appended for tool_call carries a structured error payload
ErrorMessageFor(s, tool_call) ==
    \E k \in 1..Len(Appended(s)) :
        /\ Appended(s)[k].role = "tool"
        /\ Appended(s)[k].tool_call_id = tool_call.id
        /\ "error" \in Appended(s)[k].payload.keys

\* C13: a tool call with malformed arguments is recovered locally: once the
\* tool loop is over, a tool message with an error payload has been appended
\* for that call and the turn has gone on to the final narration call.
C13_MalformedRecovered ==
    \A s \in Sessions :
        turn[s].pc \in {"final", "done"} =>
            \A i \in 1..Len(ToolCalls(s)) :
                Malformed(ToolCalls(s)[i]) =>
                    /\ ErrorMessageFor(s, ToolCalls(s)[i])
                    /\ Last(turn[s].completions) = "final"

\* ------------------------------------------------------------------ C14
\* the names of the six registered tools
RegisteredTools ==
    {"search_products", "get_product_details", "get_related_products",
     "add_to_cart", "get_cart", "create_checkout"}

\* the tool calls of the list of s before position i were dispatched and their
\* results appended: the loop has reached position i
Reached(s, i) == Len(ToolMessages(s)) >= i - 1

\* C14: a tool call naming no registered tool, with well-formed arguments,
\* does not fail the turn. Once the loop has reached it, its tool message with
\* an unknown-tool error payload is appended and the loop goes on to the calls
\* after it; when every other call of the batch can be processed, all of them
\* have their tool message and the final narration call is made.
C14_UnknownToolIsErrorResult ==
    \A s \in Sessions :
        turn[s].pc \in {"final", "done"} =>
            \A i \in 1..Len(ToolCalls(s)) :
                (/\ ToolCalls(s)[i].name \notin RegisteredTools
                 /\ ~Malformed(ToolCalls(s)[i])
                 /\ Reached(s, i)) =>
                    /\ Len(ToolMessages(s)) >= i
                    /\ ToolMessages(s)[i].tool_call_id = ToolCalls(s)[i].id
                    /\ ToolMessages(s)[i].payload.keys = {"error"}
                    /\ ToolMessages(s)[i].payload.error = "Unknown tool"
                    /\ (\A j \in 1..Len(ToolCalls(s)) :
                            j # i => (/\ ~Malformed(ToolCalls(s)[j])
                                      /\ ToolCalls(s)[j].name \in
                                            NeverRaising \cup {"add_to_cart"})) =>
                           /\ Len(ToolMessages(s)) = Len(ToolCalls(s))
                           /\ "final" \in {turn[s].completions[k] :
                                             k \in 1..Len(turn[s].completions)}

\* an unknown tool between two other calls: three tool messages, the second
\* the unknown-tool error, and the narration call made
C14_Witness ==
    /\ turn["s1"].pc = "final"
    /\ Len(ToolCalls("s1")) = 3
    /\ ToolCalls("s1")[1].name = "search_products"
    /\ ToolCalls("s1")[2].name = "track_order"
    /\ ToolCalls("s1")[3].name = "add_to_cart"
    /\ Len(ToolMessages("s1")) = 3
    /\ ToolMessages("s1")[2].payload.error = "Unknown tool"

\* ------------------------------------------------------------------ C15
\* the last execute_action call reached a collaborator and the collaborator
\* failed: the dict handed back by add_to_cart or create_checkout is {"error"}
CollaboratorFailed ==
    \/ action_result.cart.error # None
    \/ action_result.checkout_error # None

\* C15: when the cart or payment collaborator fails during a confirmed
\* execute_action with all required fields present, the returned result has
\* status error with a message, not status success.
C15_CollaboratorFailureIsError ==
    CollaboratorFailed =>
        /\ action_result.status = "error"
        /\ action_result.message # None

\* ------------------------------------------------------------------ C16
\* C16: execute_action never raises to its caller: whatever the action type,
\* the action_data, the confirmed flag and the collaborator's outcome, every
\* call returns a result whose status is cancelled, success or error.
C16_ExecuteActionAlwaysReturns ==
    [][n_actions' = n_actions + 1 =>
           action_result'.status \in {"cancelled", "success", "error"}]_vars

\* a confirmed add_to_cart whose "product" is no dict: the AttributeError was
\* caught and turned into an error result
C16_Witness ==
    /\ n_actions >= 1
    /\ action_result.status = "error"
    /\ action_result.message = ATTRIBUTE_ERROR

\* a confirmed checkout during which the payment provider failed
C16_WitnessPayment ==
    /\ n_actions >= 1
    /\ action_result.checkout_error # None
    /\ action_result.status \in {"cancelled", "success", "error"}

\* ------------------------------------------------------------------ C17
\* a required field of the action is missing from action_data: session id or
\* product id for add_to_cart; session id, email, success URL or cancel URL
\* for checkout
MissingRequired(action_type, action_data) ==
    \/ /\ action_type = "add_to_cart"
       /\ \/ Get(action_data, "session_id", None) = None
          \/ Get(action_data, "product", NoProduct).id = None
    \/ /\ action_type = "checkout"
       /\ \E key \in {"session_id", "email", "success_url", "cancel_url"} :
              Get(action_data, key, None) = None

\* C17: execute_action with confirmed = true and a required field missing
\* returns status error with a message and makes no cart or payment
\* collaborator call: cart and payment state are unchanged.
C17_MissingFieldIsError ==
    [][\A action_type \in ActionTypes, action_data \in ActionDatas, stripe_ok \in BOOLEAN :
          (/\ MissingRequired(action_type, action_data)
           /\ ExecuteAction(action_type, action_data, TRUE, stripe_ok)) =>
              /\ action_result'.status = "error"
              /\ action_result'.message # None
              /\ carts' = carts
              /\ payments' = payments]_vars

\* a checkout confirmed without its required data, on a filled cart
C17_Witness ==
    /\ n_actions >= 2
    /\ action_result.status = "error"
    /\ action_result.message = "Missing required data for checkout"
    /\ \E s \in Sessions : carts[s].items # <<>>

\* an add_to_cart confirmed without its required data
C17_WitnessAdd ==
    /\ n_actions >= 1
    /\ action_result.status = "error"
    /\ action_result.message = "Missing required data for add_to_cart"
    /\ \A s \in Sessions : ~carts[s].exists

\* ------------------------------------------------------------------ C18
\* the cart store as session s sees it when no other session has ever acted
AloneCarts(s) == [o \in Sessions |-> IF o = s THEN carts[s] ELSE NoCart]

\* the step starts a turn of s, and what it appends follows from the
\* conversation of s and the inputs of the turn alone
StartsFromOwnState(s) ==
    LET conversation == IF conversations[s].exists THEN conversations[s]
                        ELSE NewConversation
        um == UserMessageOf(conversation, turn'[s].message, turn'[s].image)
    IN  (turn'[s].pc = "auto" /\ turn[s].pc # "auto") =>
            /\ conversations'[s].messages = Append(conversation.messages, um.message)
            /\ conversations'[s].has_image = um.has_image

\* the step runs the tool loop of s, and what the loop does to the transcript,
\* the locals, the result and the cart of s is what it does when the carts of
\* the other sessions are blank
LoopFromOwnState(s) ==
    LET am == turn'[s].assistant_message
        before == IF turn[s].pc = "auto" THEN Append(conversations[s].messages, am)
                  ELSE ReplaceLast(conversations[s].messages, am)
        alone == ToolLoop([raised |-> FALSE, messages |-> before,
                           carts |-> AloneCarts(s), suggested_products |-> <<>>,
                           requires_action |-> FALSE, action_data |-> NoActionData,
                           calls |-> <<>>],
                          am.tool_calls, 1, s)
    IN  (/\ turn[s].pc \in {"auto", "forced"}
         /\ ~turn'[s].upstream_error
         /\ am.tool_calls # <<>>) =>
            /\ conversations'[s].messages = alone.messages
            /\ carts'[s] = alone.carts[s]
            /\ turn'[s].suggested_products = alone.suggested_products
            /\ turn'[s].requires_action = alone.requires_action
            /\ turn'[s].action_data = alone.action_data
            /\ (result'[s] = DegradedResult) = alone.raised

\* C18: sessions are independent. With the turns of two sessions interleaved
\* at every Completion Client call, a step of a turn of one session leaves the
\* transcript, has_image flag, turn, result and cart of the other session
\* unchanged, and its effect on its own session is the one it has when the
\* session runs alone.
C18_SessionsIndependent ==
    [][\A s \in Sessions :
          turn'[s] # turn[s] =>
              /\ \A o \in Sessions \ {s} :
                     /\ conversations'[o] = conversations[o]
                     /\ turn'[o] = turn[o]
                     /\ result'[o] = result[o]
                     /\ carts'[o] = carts[o]
              /\ StartsFromOwnState(s)
              /\ LoopFromOwnState(s)]_vars

\* a turn of one session started after and finished before a turn of the
\* other that is still at a Completion Client call; it called get_cart while
\* the other session's cart was filled
C18_Witness ==
    \E s \in Sessions, o \in Sessions :
        /\ s # o
        /\ turn[o].pc \in {"auto", "forced", "final"}
        /\ turn[s].pc = "done"
        /\ turn[s].no > turn[o].no
        /\ \E k \in 1..Len(turn[s].calls) : turn[s].calls[k] = "cart_service.get_cart"
        /\ carts[o].items # <<>>
        /\ carts[s].exists /\ carts[s].items = <<>>

\* ------------------------------------------------------------------ C19
\* the assistant message the turn of s ends up with (after the forced
\* replacement, if there was one) is known and has no tool calls
EndsWithoutToolCalls(s) ==
    /\ turn[s].assistant_message.role = "assistant"
    /\ turn[s].assistant_message.tool_calls = <<>>
    /\ turn[s].pc # "forced"
    /\ ~turn[s].upstream_error

\* C19: when the (possibly replaced) assistant message of a turn has no tool
\* calls, the turn makes no further Completion Client call and returns that
\* message's content as response text, or the fallback text "I'll help you
\* find what you're looking for." when the content is empty or absent, with no
\* suggested products and no pending action.
C19_NoToolCallsReturnsContent ==
    \A s \in Sessions :
        EndsWithoutToolCalls(s) =>
            /\ turn[s].pc = "done"
            /\ turn[s].completions = <<"auto">>
            /\ result[s].returned
            /\ result[s].response =
                   (IF turn[s].assistant_message.content = ""
                    THEN "I'll help you find what you're looking for."
                    ELSE turn[s].assistant_message.content)
            /\ result[s].suggested_products = <<>>
            /\ ~result[s].requires_action
            /\ result[s].action_data = NoActionData

\* an answer without content and without tool calls: the fallback text
C19_Witness ==
    \E s \in Sessions :
        /\ EndsWithoutToolCalls(s)
        /\ turn[s].assistant_message.content = ""
        /\ result[s].response = "I'll help you find what you're looking for."

\* an answer with content and without tool calls: the content
C19_WitnessContent ==
    \E s \in Sessions :
        /\ EndsWithoutToolCalls(s)
        /\ result[s].response = "Sure"

\* ------------------------------------------------------------------ C20
ReadOnlyTools ==
    {"search_products", "get_product_details", "get_related_products", "get_cart"}

\* the turn of s has returned, carried no image, and its assistant message
\* holds tool calls, all of them read-only
ReadOnlyTurn(s) ==
    /\ turn[s].pc = "done"
    /\ turn[s].image = None
    /\ ToolCalls(s) # <<>>
    /\ \A i \in 1..Len(ToolCalls(s)) : ToolCalls(s)[i].name \in ReadOnlyTools

\* the only call of the turn is search_products("laptops")
OnlySearchesLaptops(s) ==
    /\ Len(ToolCalls(s)) = 1
    /\ ToolCalls(s)[1].name = "search_products"
    /\ ToolCalls(s)[1].arguments.keys = {"query"}
    /\ ToolCalls(s)[1].arguments.query = LAPTOPS

\* the laptop entries of the catalog, as product dicts
LaptopEntries == <<ProductDict("p1001"), ProductDict("p1002")>>

\* C20 as stated: a turn without an image whose assistant message contains
\* only read-only tool calls returns requires_action = false and no
\* action_data; when the only call is search_products("laptops"), the
\* suggested_products returned are the laptop entries.
C20_AsStated ==
    \A s \in Sessions :
        ReadOnlyTurn(s) =>
            /\ ~result[s].requires_action
            /\ result[s].action_data = NoActionData
            /\ OnlySearchesLaptops(s) => result[s].suggested_products = LaptopEntries

\* C20 amended: the same, the suggested products being those of the search
\* when the turn completes, that is, when the final narration call does not
\* fail.
C20_ReadOnlyTurnSuggestsProducts ==
    \A s \in Sessions :
        ReadOnlyTurn(s) =>
            /\ ~result[s].requires_action
            /\ result[s].action_data = NoActionData
            /\ (OnlySearchesLaptops(s) /\ Completed(s)) =>
                   /\ result[s].suggested_products = LaptopEntries
                   /\ result[s].suggested_products = search_products(LAPTOPS)

\* a completed turn that searched for laptops and suggests the two laptops
C20_Witness ==
    \E s \in Sessions :
        /\ ReadOnlyTurn(s) /\ OnlySearchesLaptops(s) /\ Completed(s)
        /\ Len(result[s].suggested_products) = 2
        /\ result[s].suggested_products[1].id = "p1001"
        /\ result[s].suggested_products[2].id = "p1002"
        /\ ~result[s].requires_action

\* ------------------------------------------------------------------ C21
\* C21: a confirmed checkout creates the payment session from the cart of the
\* session as it is at confirmation time, not from the cart snapshot carried
\* by the pending action: the payment collaborator receives the lines the
\* cart service holds for the session when execute_action is called.
C21_CheckoutUsesCurrentCart ==
    [][\A action_data \in CheckoutDatas :
          (/\ ~MissingRequired("checkout", action_data)
           /\ ExecuteAction("checkout", action_data, TRUE, TRUE)) =>
              /\ action_data.cart.items # carts[action_data.session_id].items
              /\ payments' = Append(payments,
                                    [session_id |-> action_data.session_id,
                                     items |-> carts[action_data.session_id].items,
                                     customer_email |-> action_data.email])]_vars

\* a checkout confirmed after the cart was filled: the payment session holds
\* the lines of the cart, which are not those of the snapshot
C21_Witness ==
    /\ action_result.status = "success"
    /\ action_result.message = "Checkout created successfully"
    /\ payments # <<>>
    /\ Last(payments).items # <<>>
    /\ Last(payments).items = carts[Last(payments).session_id].items
    /\ Last(payments).items # CartSnapshot(Last(payments).session_id).items

\* ------------------------------------------------------------------ C22
\* message k of the transcript is a tool message that answers a call of the
\* nearest assistant message before it, with only tool messages in between
AnswersPrecedingAssistant(messages, k) ==
    \E j \in 1..(k - 1) :
        /\ messages[j].role = "assistant"
        /\ \A m \in (j + 1)..(k - 1) : messages[m].role = "tool"
        /\ \E c \in 1..Len(messages[j].tool_calls) :
               messages[j].tool_calls[c].id = messages[k].tool_call_id

\* C22: in every reachable transcript (turns of a session one after the
\* other, aborted turns included), every tool message carries a tool-call id
\* of the tool-call list of the nearest preceding assistant message, and only
\* tool messages lie between that assistant message and it.
C22_ToolMessagesReferToCalls ==
    \A s \in Sessions :
        \A k \in 1..Len(conversations[s].messages) :
            conversations[s].messages[k].role = "tool" =>
                AnswersPrecedingAssistant(conversations[s].messages, k)

\* a turn whose tool loop raised after its first tool message, followed by a
\* completed turn with two tool messages of its own
C22_Witness ==
    /\ Completed("s1")
    /\ Len(ToolMessages("s1")) = 2
    /\ \E k \in 1..Len(turn["s1"].start) :
           /\ turn["s1"].start[k].role = "tool"
           /\ turn["s1"].start[k - 1].role = "assistant"
           /\ Len(turn["s1"].start[k - 1].tool_calls) = 2
           /\ k = Len(turn["s1"].start)


\* ------------------------------------------------------------------ C23
\* C23: within one batch of tool calls, suggested_products of the turn result
\* is determined by the last product-producing call alone: the list returned
\* by the last search_products or get_related_products call (also when it is
\* empty) or the product of the last successful get_product_details call;
\* results of earlier calls are not retained (stated for completed turns
\* whose product service calls do not raise).
C23_LastProducingCallWins ==
    LET Producing(tool_call) ==
            \/ tool_call.name \in {"search_products", "get_related_products"}
            \/ /\ tool_call.name = "get_product_details"
               /\ ProductService_has_product(tool_call.arguments.product_id)
        ProductsOf(tool_call) ==
            CASE tool_call.name = "search_products" ->
                     search_products(tool_call.arguments.query)
              [] tool_call.name = "get_related_products" ->
                     get_related_products(tool_call.arguments.product_id,
                                          Get(tool_call.arguments, "limit", 3))
              [] OTHER -> <<ProductDict(tool_call.arguments.product_id)>>
        LastProduced(tool_calls) ==
            LET producing == {i \in 1..Len(tool_calls) :
                                  Producing(tool_calls[i])}
                last == CHOOSE i \in producing : \A j \in producing : j <= i
            IN  IF producing = {} THEN <<>> ELSE ProductsOf(tool_calls[last])
    IN  \A s \in Sessions :
            (/\ Completed(s)
             /\ ToolCalls(s) # <<>>
             /\ \A i \in 1..Len(ToolCalls(s)) :
                    Get(ToolCalls(s)[i].arguments, "filters", None) = None) =>
                result[s].suggested_products = LastProduced(ToolCalls(s))

\* ------------------------------------------------------------------ C24
\* C24: a completed turn whose assistant message carries tool calls makes the
\* narration call exactly once, as its last Completion Client call, and a turn
\* without tool calls never makes it; a completed turn appends at most one
\* assistant message with tool calls (one dispatch batch), and the last message
\* of the transcript after a completed turn is an assistant message without
\* tool calls.
C24_OneBatchThenNarration ==
    \A s \in Sessions :
        Completed(s) =>
            LET messages == conversations[s].messages
                completions == turn[s].completions
                finals == {i \in 1..Len(completions) : completions[i] = "final"}
                batches == {i \in 1..Len(Appended(s)) :
                                /\ Appended(s)[i].role = "assistant"
                                /\ Appended(s)[i].tool_calls # <<>>}
            IN  /\ finals = IF ToolCalls(s) # <<>> THEN {Len(completions)} ELSE {}
                /\ Cardinality(batches) <= 1
                /\ messages[Len(messages)].role = "assistant"
                /\ messages[Len(messages)].tool_calls = <<>>

\* a text turn with a batch of three tool calls has returned after narration
C24_Witness ==
    /\ Completed("s1")
    /\ Len(ToolCalls("s1")) = MaxBatch
    /\ ~turn["s1"].forced
    /\ turn["s1"].completions = <<"auto", "final">>
    /\ conversations["s1"].messages[Len(conversations["s1"].messages)].content
           = "Here is what I found"

\* ------------------------------------------------------------------ C25
\* C25: when the assistant message of a turn carries several gated tool calls,
\* the turn result holds one pending action, of the type of the last gated
\* call, and every gated call has its own waiting_for_confirmation tool
\* message (stated for turns whose Completion Client calls all return and
\* whose calls are well-formed, gated or never-raising).
C25_LastGatedCallPending ==
    \A s \in Sessions :
        LET gated == {i \in 1..Len(ToolCalls(s)) : ToolCalls(s)[i].name \in GatedTools}
            last == CHOOSE i \in gated : \A j \in gated : j <= i
            ActionType(name) == IF name = "create_checkout" THEN "checkout" ELSE name
        IN  (/\ turn[s].pc = "done"
             /\ ~turn[s].upstream_error
             /\ Cardinality(gated) >= 2
             /\ \A j \in 1..Len(ToolCalls(s)) :
                    /\ ~Malformed(ToolCalls(s)[j])
                    /\ ToolCalls(s)[j].name \in NeverRaising \cup GatedTools) =>
                /\ result[s].requires_action
                /\ result[s].action_data.type = ActionType(ToolCalls(s)[last].name)
                /\ \A i \in gated : \E k \in 1..Len(Appended(s)) :
                       /\ Appended(s)[k].role = "tool"
                       /\ Appended(s)[k].tool_call_id = ToolCalls(s)[i].id
                       /\ Appended(s)[k].payload.status = "waiting_for_confirmation"

\* ------------------------------------------------------------------ C26
\* C26: a pending action is consumed by its first execute_action call: every
\* later execute_action call with the same pending action leaves the carts
\* and the payment sessions as they were. (Every call of Spec carries the same
\* pending action, add_to_cart of one p1001 for s1.)
C26_PendingActionConsumed ==
    [][(n_actions >= 1 /\ n_actions' = n_actions + 1) =>
           (carts' = carts /\ payments' = payments)]_vars

\* ------------------------------------------------------------------ C27
\* C27: the transcript is append-only across turns: in every state, each
\* message that was in the transcript of a session when its current (or last)
\* turn started is still at the same position and unchanged, whether the turn
\* is in progress, has returned normally or has returned the degraded
\* response; what a turn replaces in place is a message it appended itself.
C27_TranscriptAppendOnly ==
    \A s \in Sessions :
        /\ Len(conversations[s].messages) >= Len(turn[s].start)
        /\ \A i \in 1..Len(turn[s].start) :
               conversations[s].messages[i] = turn[s].start[i]

\* the second turn of s1 went through the forced replacement and has returned,
\* on top of the transcript the first turn left
C27_Witness ==
    /\ turn["s1"].pc = "done"
    /\ turn["s1"].forced
    /\ Len(turn["s1"].start) >= 3
    /\ Len(Appended("s1")) >= 3

\* ------------------------------------------------------------------ C28
\* C28: a read-only tool call whose collaborator fails does not abort the
\* turn. When get_product_details finds no product, or the product service
\* raises inside search_products, the call's tool message carries an error
\* payload ({"error": ...}, with "products": [] for a search), every call of
\* the batch has its tool message, and the turn goes on to the final
\* narration call; it ends degraded only when a Completion Client call raises.
C28_ReadOnlyFailureIsErrorPayload ==
    \A s \in Sessions :
        turn[s].pc \in {"final", "done"} =>
            \A i \in 1..Len(ToolCalls(s)) :
                LET tool_call == ToolCalls(s)[i]
                    not_found == /\ tool_call.name = "get_product_details"
                                 /\ ~ProductService_has_product(tool_call.arguments.product_id)
                    raises == /\ tool_call.name = "search_products"
                              /\ ProductService_search_raises(
                                     tool_call.arguments.query,
                                     Get(tool_call.arguments, "filters", None))
                IN  (not_found \/ raises) =>
                        /\ Len(ToolMessages(s)) = Len(ToolCalls(s))
                        /\ ToolMessages(s)[i].tool_call_id = tool_call.id
                        /\ "error" \in ToolMessages(s)[i].payload.keys
                        /\ ToolMessages(s)[i].payload.error # None
                        /\ not_found => ToolMessages(s)[i].payload.error = "Product not found"
                        /\ raises => ToolMessages(s)[i].payload.products = <<>>
                        /\ turn[s].completions[Len(turn[s].completions)] = "final"
                        /\ (turn[s].pc = "done" /\ ~turn[s].upstream_error) => Completed(s)

\* a completed turn whose batch held a search that raised, a lookup of an
\* unknown product and a search that succeeded
C28_Witness ==
    /\ Completed("s1")
    /\ Len(ToolCalls("s1")) = 3
    /\ ToolCalls("s1")[1].arguments = CallSearchBadFilters.arguments
    /\ ToolCalls("s1")[2].arguments = CallDetailsUnknown.arguments
    /\ ToolCalls("s1")[3].name = "search_products"
    /\ result["s1"].suggested_products # <<>>

\* ------------------------------------------------------------------ C29
\* C29: execute_action bypasses the LLM and the transcript: whatever the
\* action type, the action data and the confirmed flag, a call makes no
\* Completion Client call (the record of every turn, its completion calls
\* included, is unchanged) and leaves the messages and the has_image flag of
\* every conversation unchanged.
C29_ExecuteActionBypassesTranscript ==
    [][n_actions' = n_actions + 1 =>
           /\ \A s \in Sessions :
                  /\ conversations'[s].messages = conversations[s].messages
                  /\ conversations'[s].has_image = conversations[s].has_image
                  /\ turn'[s].completions = turn[s].completions
           /\ conversations' = conversations
           /\ turn' = turn]_vars

\* a confirmed checkout has been executed after a turn of s1 with an image
C29_Witness ==
    /\ n_actions >= 2
    /\ action_result.status = "success"
    /\ action_result.message = "Checkout created successfully"
    /\ payments # <<>>
    /\ turn["s1"].pc = "done"
    /\ conversations["s1"].has_image
    /\ Len(conversations["s1"].messages) >= 3

\* ------------------------------------------------------------------ C30
\* C30: every process_message call eventually returns a turn result, normal
\* or degraded, when each Completion Client call returns or raises; a turn
\* makes at most three Completion Client calls (auto, forced, narration, in
\* that order), appends at most one assistant message with tool calls, and
\* never goes back from the narration call to another call or to the tool
\* loop.
C30_TurnEventuallyReturns ==
    /\ \A s \in Sessions :
           (turn[s].pc \in {"auto", "forced", "final"}) ~>
               (turn[s].pc = "done" /\ result[s] # NoTurnResult)
    /\ [](\A s \in Sessions :
              /\ Len(turn[s].completions) <= 3
              /\ turn[s].completions \in
                     {<<>>, <<"auto">>, <<"auto", "forced">>, <<"auto", "final">>,
                      <<"auto", "forced", "final">>}
              /\ Cardinality({i \in 1..Len(Appended(s)) :
                                  /\ Appended(s)[i].role = "assistant"
                                  /\ Appended(s)[i].tool_calls # <<>>}) <= 1)
    /\ [][\A s \in Sessions :
              turn[s].pc = "final" => turn'[s].pc \in {"final", "done"}]_vars

\* a turn that needed all three Completion Client calls has returned
C30_Witness ==
    /\ Completed("s1")
    /\ turn["s1"].completions = <<"auto", "forced", "final">>
    /\ turn["s1"].no = 2

\* ------------------------------------------------------------------ C31
\* C31: whenever no process_message call is in progress, every tool call
\* listed in an assistant message of a transcript is answered by exactly one
\* tool message with that call's id, and that message lies after the assistant
\* message and before the next user or assistant message (turns that returned
\* the degraded response included).
C31_EveryToolCallAnswered ==
    \A s \in Sessions :
        turn[s].pc \in {"idle", "done"} =>
            LET messages == conversations[s].messages
                Answers(k, id) ==
                    {j \in 1..Len(messages) :
                        messages[j].role = "tool" /\ messages[j].tool_call_id = id}
                Between(k, j) ==
                    /\ k < j
                    /\ \A m \in (k + 1)..(j - 1) :
                           messages[m].role \notin {"user", "assistant"}
            IN  \A k \in 1..Len(messages) :
                    messages[k].role = "assistant" =>
                        \A c \in 1..Len(messages[k].tool_calls) :
                            LET answers == Answers(k, messages[k].tool_calls[c].id)
                            IN  /\ Cardinality(answers) = 1
                                /\ \A j \in answers : Between(k, j)

\* ------------------------------------------------------------------ C32
\* C32: in every turn result returned by process_message, requires_action is
\* true exactly when action_data is present (not None), and a present
\* action_data names its type; the degraded error result has requires_action
\* false and no action_data.
C32_RequiresActionIffActionData ==
    \A s \in Sessions :
        result[s].returned =>
            /\ result[s].requires_action <=> result[s].action_data # NoActionData
            /\ result[s].requires_action <=> result[s].action_data.type # None
            /\ result[s].response = ERROR_TEXT =>
                   /\ ~result[s].requires_action
                   /\ result[s].action_data = NoActionData

\* a completed turn with a pending add_to_cart, and before it in the batch a
\* call that sets no action
C32_Witness ==
    /\ Completed("s1")
    /\ result["s1"].requires_action
    /\ result["s1"].action_data.type = "add_to_cart"
    /\ Len(ToolCalls("s1")) >= 2
    /\ ToolCalls("s1")[1].name = "search_products"

\* ------------------------------------------------------------------ C33
\* C33: a confirmation submitted to the confirm endpoint for session S with
\* confirmed = true leaves the cart of every session other than S unchanged,
\* whatever session id the submitted action_data contains.
C33_ConfirmationTouchesOwnCartOnly ==
    [][\A S \in Sessions, action_data \in ConfirmDatas :
           confirm_action(S, "add_to_cart", action_data, TRUE, TRUE) =>
               \A other \in Sessions \ {S} : carts'[other] = carts[other]]_vars

\* ------------------------------------------------------------------ C34
\* C34: every line of every cart has quantity at least 1, whatever integer
\* quantities the confirmed add_to_cart actions carried.
C34_QuantitiesAtLeastOne ==
    \A s \in Sessions :
        \A i \in 1..Len(carts[s].items) : carts[s].items[i].quantity >= 1

\* ------------------------------------------------------------------ C35
\* C35: a cart never holds two lines for the same product id, after any
\* sequence of add_to_cart, update_quantity, remove_from_cart and clear_cart
\* calls; and add_to_cart for a product that has a line raises that line's
\* quantity by the quantity added and leaves the number of lines as it was.
C35_OneLinePerProduct ==
    /\ [](\A s \in Sessions :
              \A i, j \in 1..Len(carts[s].items) :
                  carts[s].items[i].product_id = carts[s].items[j].product_id => i = j)
    /\ [][\A s \in Sessions, pid \in {"p1001", "p1002"}, q \in {-1, 1} :
              \A i \in 1..Len(carts[s].items) :
                  (carts[s].items[i].product_id = pid /\ CartAdd(s, pid, q)) =>
                      /\ Len(carts'[s].items) = Len(carts[s].items)
                      /\ carts'[s].items[i].quantity = carts[s].items[i].quantity + q]_vars

\* a cart of two lines, the first of which was added to again
C35_Witness ==
    /\ Len(carts["s1"].items) = 2
    /\ carts["s1"].items[1] = [product_id |-> "p1001", quantity |-> 3]
    /\ carts["s1"].items[2].product_id = "p1002"
    /\ Len(carts["s2"].items) = 1

\* ------------------------------------------------------------------ C36
\* C36: CartService.add_to_cart with a product id that is not in the catalog
\* raises an error and leaves the lines of the session's cart (and with them
\* its subtotal and total, which are computed from the lines) and the carts of
\* all other sessions unchanged. The call is made by a confirmed add_to_cart
\* action, whose result carries the error that was raised.
C36_UnknownProductLeavesCarts ==
    [][\A s \in Sessions, q \in {-1, 1, 2}, stripe_ok \in BOOLEAN :
           ExecuteAction("add_to_cart", AddData(s, ProductDict("p9999"), q), TRUE,
                         stripe_ok) =>
               /\ CartService_add_to_cart(carts, s, "p9999", q).raised
               /\ action_result'.cart.error = "Product not found"
               /\ carts'[s].items = carts[s].items
               /\ \A other \in Sessions \ {s} : carts'[other] = carts[other]]_vars

\* the last call tried to add an unknown product to a cart that has a line
C36_Witness ==
    /\ n_actions = 2
    /\ action_result.cart.error = "Product not found"
    /\ carts["s1"].items = <<[product_id |-> "p1001", quantity |-> 2]>>

\* ------------------------------------------------------------------ C37
\* C37: when the model calls add_to_cart with a product id that is not in the
\* catalog, the pending action the turn returns carries the not-found error
\* in place of a product (no id); and execute_action called with that pending
\* action and confirmed = true returns status error and leaves every cart
\* unchanged.
C37_UnknownProductPendingAction ==
    /\ [](\A s \in Sessions :
              (/\ Completed(s)
               /\ Len(ToolCalls(s)) = 1
               /\ ToolCalls(s)[1].name = "add_to_cart"
               /\ ~ProductService_has_product(ToolCalls(s)[1].arguments.product_id)) =>
                  /\ result[s].requires_action
                  /\ result[s].action_data.type = "add_to_cart"
                  /\ result[s].action_data.session_id = s
                  /\ result[s].action_data.product = ProductError("Product not found"))
    /\ [][\A s \in Sessions, stripe_ok \in BOOLEAN :
              (/\ Completed(s)
               /\ Len(ToolCalls(s)) = 1
               /\ ToolCalls(s)[1].name = "add_to_cart"
               /\ ~ProductService_has_product(ToolCalls(s)[1].arguments.product_id)
               /\ ExecuteAction("add_to_cart", result[s].action_data, TRUE, stripe_ok)) =>
                  /\ action_result'.status = "error"
                  /\ action_result'.message = "Missing required data for add_to_cart"
                  /\ carts' = carts]_vars

\* the pending action of a turn that gated add_to_cart(p9999) was confirmed
\* and refused
C37_Witness ==
    /\ Completed("s1")
    /\ ToolCalls("s1") # <<>>
    /\ ToolCalls("s1")[1].arguments.product_id = "p9999"
    /\ result["s1"].requires_action
    /\ n_actions = 1
    /\ action_result.status = "error"
    /\ action_result.message = "Missing required data for add_to_cart"

\* ------------------------------------------------------------------ C38
\* C38: the confirm endpoint answers a confirmation for a session id that has
\* no agent instance with a 404 "Session not found" error, and executes no
\* action.
C38_UnknownSessionIs404 ==
    [][\A s \in Sessions, action_data \in ConfirmDatas, confirmed \in BOOLEAN :
           (s \notin agent_instances
            /\ confirm_action(s, "add_to_cart", action_data, confirmed, TRUE)) =>
               /\ response'.status_code = 404
               /\ response'.detail = "Session not found"
               /\ n_actions' = n_actions
               /\ carts' = carts
               /\ payments' = payments]_vars

\* ------------------------------------------------------------------ C39
\* C39: whenever active_connections holds an entry for a session id, the entry
\* is a WebSocket that is open and belongs to that session, and every open
\* WebSocket of a session is the one recorded for it, under any interleaving
\* of connects, disconnects and processing errors, two connections for the
\* same session id included.
C39_ActiveConnectionsAreOpen ==
    /\ \A s \in Sessions :
           active_connections[s] # NoWebSocket =>
               /\ websockets[active_connections[s]].open
               /\ websockets[active_connections[s]].session_id = s
    /\ \A ws \in DOMAIN websockets :
           websockets[ws].open => active_connections[websockets[ws].session_id] = ws
====
